---- MODULE Spec2Model ----
(***************************************************************************)
(* Rainfall ingestion pipeline of the lluvia_processor service             *)
(* (src/modelo predictivo/lluvia_processor/src/main.py).                   *)
(*                                                                         *)
(* Two specifications share this module:                                   *)
(*   SpecFetch  LluviaProcessor.obtener_datos_lluvia_masivos: the block    *)
(*              scheduler and its page loop, over every bounded time range *)
(*              and every bounded remote dataset;                          *)
(*   Spec       main / procesar_datos_completos / procesar_lluvia_diaria / *)
(*              control_calidad_datos / generar_formato_modelo /           *)
(*              guardar_resultados: one pipeline run, the retrieval taken  *)
(*              block by block.                                            *)
(*                                                                         *)
(* Time is counted in ticks; one day (timedelta(days=1), 86400 s in the    *)
(* code) is DayTicks ticks.  The page size (limit = 2000 in the code) is   *)
(* PageLimit records.  Both are scaled down so that TLC can enumerate the  *)
(* block boundaries and the pages.                                         *)
(***************************************************************************)
EXTENDS Integers, Sequences, FiniteSets, TLC

\* ---------------------------------------------------------------- bounds
\* Largest timestamp (in ticks) of a requested range or of an observation.
MaxT == 5
\* Ticks per day: the scale of timedelta(days=block_size).
DayTicks == 2
\* Records per page: the scale of limit = 2000.
PageLimit == 2
\* Calendar days 1..MaxDate on which a sensor may have a daily total.
MaxDate == 5
\* largest daily total, in mm, of a date whose total is drawn freely
MaxVal == 1
\* most observations handed to the daily aggregation
MaxObs == 2
\* a sensor's missing day is at most this many days before the last day
MaxGap == 2
MaxFilas == 3
MaxChunk == 2
MaxRemotos == 2

\* ------------------------------------------------------ program constants
block_size == 1
max_retries == 3
MaxBatchErrors == 5
days_back == 30
max_complete_retries == 2
min_coverage == 70
reduced_coverage == 50
ultimos_periods == 4
ventana_dias == 29

\* The sensors (codigoestacion) of the daily table.
Sensors == {"A001", "B002"}
Dates == 1..MaxDate

VARIABLES
  \* ---- obtener_datos_lluvia_masivos
  fecha_inicio,    \* start of the requested range (ticks)
  end_time,        \* end of the requested range (ticks)
  remote,          \* the remote dataset: the timestamps of its observations
  pc,              \* position in obtener_datos_lluvia_masivos
  current_start,
  current_end,
  all_data,        \* sequence of retrieved observations (their timestamps)
  block_data,
  retry_count,
  block_success,
  offset,
  batch_errors,
  failed_blocks,   \* sequence of <<start, end>> of the blocks lost
  total_days,
  failed_days,
  \* ---- history of the run (not read by the program)
  n_blocks,        \* blocks the while loop has iterated over
  attempts,        \* attempts started for the current block
  zero_attempts,   \* attempts of the current block that ended with no record
  got_any,         \* some attempt of the current block ended with a record
  fatal_seen,      \* a non-transient page error was raised in the current block
  blk,             \* <<start, end>> of the block last entered
  collected,       \* the records of every attempt that ended with a record
  req_offset,      \* offset of the last page request of the current attempt
  req_result       \* how that request ended ("none" before the first one)

fvars == <<fecha_inicio, end_time, remote, pc, current_start, current_end,
           all_data, block_data, retry_count, block_success, offset,
           batch_errors, failed_blocks, total_days, failed_days,
           n_blocks, attempts, zero_attempts, got_any, fatal_seen, blk,
           collected, req_offset, req_result>>

VARIABLES
  \* ---- main / procesar_datos_completos and the stages it calls
  stage,             \* position of the pipeline run
  estaciones_exists, \* estaciones_SAT_revis_nombres.shp is present
  region_exists,     \* Region_andina_VivianaUrrea.shp is present
  region_readable,   \* gpd.read_file(region_path) succeeds
  attempt,           \* loop variable of the whole-run retries
  run_block,         \* blocks of the current retrieval already decided
  run_failed,        \* len(failed_blocks) of the current retrieval
  run_has_data,      \* len(all_data) > 0 in the current retrieval
  cov_total,         \* total_days of the last coverage report
  cov_failed,        \* failed_days of the last coverage report
  gate,              \* outcome of the coverage gate
  files,             \* names of the files written under output_path
  written_rows,      \* sensors of the feature table written to the csv files
  andina,            \* result of filtrar_region_andina
  daily,             \* df_lluvia_diaria: sensor -> dates with a daily total
  filtrado,          \* df_lluvia_filtrado, same shape
  pivot,             \* resultados_pivot: the sensors with a feature row
  exit_code,         \* what main returned (-1 while running)
  abort_at,          \* the stage whose exception ended the run
  completo,          \* df_lluvia_completo: the daily table after rule 1
  attempt_lost,      \* blocks of the current retrieval that returned nothing
  valor,             \* lluvia_diaria of the rows: sensor -> date -> total
  features           \* resultados_pivot: the rows of the feature table

VARIABLES
  \* ---- the groupby of procesar_lluvia_diaria
  agg_pc,            \* position of the aggregation
  observaciones,     \* df_andina: the observations handed to it
  filas_diarias      \* df_lluvia_diaria: the rows the groupby returns

VARIABLES
  \* ---- corregir_inconsistencias_localidades
  loc_pc,            \* position of the reconciliation
  df_entrada,        \* df_lluvia_filtrado as control_calidad_datos holds it
  df_salida,         \* df_lluvia_filtrado as control_calidad_datos returns it
  registro_estado,   \* the registry file: "ok", "missing" or "unreadable"
  registro           \* codigo -> (mpio_def, depto_def) of the registry file

VARIABLES
  \* ---- filtrar_region_andina
  filtro_pc,         \* position of the spatial filter
  recibido,          \* the rows as they arrived, before line 212 converts them
  df_nrt,            \* df_nrt: the frame handed to the filter
  region_cargable,   \* gpd.read_file of the region file succeeds
  chunk_size,        \* chunk_size
  chunk_repetido,    \* chunk_size of the call on gdf_nrt_andina
  gdf_nrt_andina,    \* what the call returned
  gdf_repetido       \* what the call on gdf_nrt_andina returned

pvars == <<stage, estaciones_exists, region_exists, region_readable, attempt,
           run_block, run_failed, run_has_data, cov_total, cov_failed, gate,
           files, written_rows, andina, daily, filtrado, pivot, exit_code,
           abort_at, completo, attempt_lost, valor, features>>

gvars == <<agg_pc, observaciones, filas_diarias>>

lvars == <<loc_pc, df_entrada, df_salida, registro_estado, registro>>

VARIABLES
  \* ---- the pauses and the whole-run attempts of a retrieval
  pausa_bloque,      \* seconds slept after the attempt decided last
  pausas_completas,  \* seconds slept before each whole-run retry, in order
  previas            \* (total_days, failed_days, any record) of earlier attempts

xvars == <<filtro_pc, recibido, df_nrt, region_cargable, chunk_size,
           chunk_repetido, gdf_nrt_andina, gdf_repetido>>

VARIABLES
  \* ---- SATOrchestrator.ejecutar_pipeline_completo
  orq_pc,               \* position of the orchestrator
  contenedores,         \* the services whose container exists
  status,               \* container.status of each service
  exit_codes,           \* State.ExitCode of each service
  salida,               \* the output files of each service exist
  paso,                 \* index in secuencia of the service in hand
  servicios_ejecutados, \* resultados['servicios_ejecutados']
  errores,              \* resultados['errores']
  exitoso,              \* resultados['exitoso']
  iniciados,            \* the services container.start() was called for
  verificados           \* the services whose output check passed

hvars == <<pausa_bloque, pausas_completas, previas>>

ovars == <<orq_pc, contenedores, status, exit_codes, salida, paso,
           servicios_ejecutados, errores, exitoso, iniciados, verificados>>

avars == <<gvars, lvars, xvars, hvars, ovars>>

vars == <<fvars, pvars, avars>>

EmptyTable == [s \in Sensors |-> {}]

\* lines 259-265: the calendar days of the range of a run, day 1 being the
\* day days_back days ago and the last one today
AllDays == 1..(days_back + 1)

\* Daily totals that depend on the date only.
ValorBase == [s \in Sensors |-> [d \in AllDays |-> d % (MaxVal + 1)]]

\* The aggregation variables while the aggregation is not what is run.
AgrupacionIdle ==
  /\ agg_pc = "idle"
  /\ observaciones = <<>>
  /\ filas_diarias = {}

\* The reconciliation variables while the reconciliation is not what is run.
LocalIdle ==
  /\ loc_pc = "idle"
  /\ df_entrada = <<>>
  /\ df_salida = <<>>
  /\ registro_estado = "ok"
  /\ registro = <<>>

\* A call of the filter that has not returned.
SinResultado == [estado |-> "none", filas |-> <<>>, columnas |-> <<>>]

\* The spatial filter variables while the filter is not what is run.
FiltroIdle ==
  /\ filtro_pc = "idle"
  /\ recibido = <<>>
  /\ df_nrt = <<>>
  /\ region_cargable = TRUE
  /\ chunk_size = 1
  /\ chunk_repetido = 1
  /\ gdf_nrt_andina = SinResultado
  /\ gdf_repetido = SinResultado

\* No pause was taken and no whole-run attempt was given up.
HistIdle ==
  /\ pausa_bloque = 0
  /\ pausas_completas = <<>>
  /\ previas = <<>>

\* orchestrator.py line 239: secuencia
secuencia == <<"lluvia-processor", "modelo-sat", "geotiff-exporter">>

\* orchestrator.py lines 41-51: the keys of self.services
Servicios == {secuencia[k] : k \in 1..Len(secuencia)}

\* The orchestrator variables while the orchestrator is not what is run.
OrqIdle ==
  /\ orq_pc = "idle"
  /\ contenedores = {}
  /\ status = [s \in Servicios |-> "absent"]
  /\ exit_codes = [s \in Servicios |-> 0]
  /\ salida = [s \in Servicios |-> FALSE]
  /\ paso = 0
  /\ servicios_ejecutados = <<>>
  /\ errores = <<>>
  /\ exitoso = FALSE
  /\ iniciados = <<>>
  /\ verificados = {}

\* The variables of the steps that are checked on their own.
AggIdle ==
  /\ AgrupacionIdle
  /\ LocalIdle
  /\ FiltroIdle
  /\ HistIdle
  /\ OrqIdle

\* The pipeline variables while only obtener_datos_lluvia_masivos is run.
PipelineIdle ==
  /\ stage = "idle"
  /\ estaciones_exists = TRUE
  /\ region_exists = TRUE
  /\ region_readable = TRUE
  /\ attempt = 0
  /\ run_block = 0
  /\ run_failed = 0
  /\ run_has_data = FALSE
  /\ cov_total = 0
  /\ cov_failed = 0
  /\ gate = "pending"
  /\ files = {}
  /\ written_rows = {}
  /\ andina = "none"
  /\ daily = EmptyTable
  /\ filtrado = EmptyTable
  /\ pivot = {}
  /\ exit_code = -1
  /\ abort_at = "none"
  /\ completo = EmptyTable
  /\ attempt_lost = 0
  /\ valor = ValorBase
  /\ features = <<>>

\* ------------------------------------------------------------- helpers
Min(a, b) == IF a < b THEN a ELSE b

RECURSIVE SortedSeq(_)
\* The observations of a set in ascending timestamp order.
SortedSeq(S) ==
  IF S = {} THEN <<>>
  ELSE LET m == CHOOSE x \in S : \A y \in S : x <= y
       IN <<m>> \o SortedSeq(S \ {m})

\* The where clause of a block's query, lines 130-136:
\*   fechaobservacion >= start_str AND fechaobservacion <= end_str
BlockQuery(s, e) == {t \in remote : t >= s /\ t <= e}

\* client.get(..., limit, offset): one page of the query's result.
Page(s, e, off) ==
  LET all == SortedSeq(BlockQuery(s, e))
  IN SubSeq(all, off + 1, Min(off + PageLimit, Len(all)))

\* A block end that is not cut at the end of the range.
BlockEnd_sin_tope(s, e) == s + block_size * DayTicks

\* line 107: current_end = min(current_start + timedelta(days=block_size), end_time)
BlockEnd(s, e) == Min(s + block_size * DayTicks, e)

\* A count of the whole days between the ends of the range only.
TotalDays_sin_uno(s, e) == (e - s) \div DayTicks

\* line 182: total_days = (end_time - start).days + 1
TotalDays(s, e) == ((e - s) \div DayTicks) + 1

\* line 183: failed_days = len(failed_blocks) * block_size
FailedDays(n) == n * block_size

\* A scheduler that discards an attempt in which a page raised.
AttemptSucceeded_clean(bd, errs) == Len(bd) > 0 /\ errs = 0

\* line 163: the attempt succeeded when it collected at least one record
AttemptSucceeded(bd, errs) == Len(bd) > 0

\* A scheduler whose retry loop stops one attempt early.
MayAttempt_short(rc, ok) == rc < max_retries /\ ~ok

\* A retry loop that allows one attempt more.
MayAttempt_cinco(rc, ok) == rc <= max_retries + 1 /\ ~ok

\* line 117: while retry_count <= max_retries and not block_success
MayAttempt(rc, ok) == rc <= max_retries /\ ~ok

\* A pagination that stops at the first page shorter than the limit.
FinDePaginas_corta(batch) == Len(batch) < PageLimit

\* lines 138-139: 'if not batch: break', the only exit of a page that returned
FinDePaginas(batch) == batch = <<>>

\* How a page request that returned is told apart by its length.
TipoDePagina(batch) ==
  IF batch = <<>> THEN "empty"
  ELSE IF Len(batch) < PageLimit THEN "short" ELSE "page"

\* An attempt that goes on after the fifth error.
SigueTrasError_seis(errs) == errs <= MaxBatchErrors

\* line 153: if batch_errors < 5: continue
SigueTrasError(errs) == errs < MaxBatchErrors

\* A page error that is not caught when it is not a connectivity error.
DespuesDeError_propaga(transitorio, errs) ==
  IF transitorio THEN (IF SigueTrasError(errs) THEN "page" ELSE "eval")
  ELSE "raised"

\* lines 145-160: where the except branch leaves the page loop, for a
\* timeout/connection error and for any other one
DespuesDeError(transitorio, errs) ==
  IF transitorio /\ SigueTrasError(errs) THEN "page" ELSE "eval"

\* line 172: time.sleep(5)
pausa_bloque_s == 5

\* line 277: time.sleep(10)
pausa_completa_s == 10

\* A pause that grows with the number of the attempt.
PausaBloque_creciente(rc) == IF rc <= max_retries THEN pausa_bloque_s * rc ELSE 0

\* lines 169-172: the pause after a failed attempt, retry_count already
\* incremented; there is none when no attempt is left
PausaBloque(rc) == IF rc <= max_retries THEN pausa_bloque_s ELSE 0

\* lines 274-277: the pause at the head of whole-run attempt att
PausaCompleta(att) == IF att > 0 THEN pausa_completa_s ELSE 0

\* A retrieval that keeps the records of the attempt before it.
ReinicioDatos_conserva(prev) == prev

\* line 99 in the call of line 280: every retrieval starts with all_data = []
ReinicioDatos(prev) == <<>>

\* line 184 compared against a threshold p, without the float:
\* ((total_days - failed_days) / total_days) * 100 >= p
CovGE(td, fd, p) == 100 * (td - fd) >= p * td

\* ------------------------------------------- obtener_datos_lluvia_masivos
InitFetch ==
  /\ fecha_inicio = 0
  /\ end_time \in 0..MaxT
  /\ remote \in SUBSET (0..MaxT)
  /\ pc = "blocks"
  /\ current_start = 0
  /\ current_end = 0
  /\ all_data = <<>>
  /\ block_data = <<>>
  /\ retry_count = 0
  /\ block_success = FALSE
  /\ offset = 0
  /\ batch_errors = 0
  /\ failed_blocks = <<>>
  /\ total_days = 0
  /\ failed_days = 0
  /\ n_blocks = 0
  /\ attempts = 0
  /\ zero_attempts = 0
  /\ got_any = FALSE
  /\ fatal_seen = FALSE
  /\ blk = <<0, 0>>
  /\ collected = <<>>
  /\ req_offset = 0
  /\ req_result = "none"
  /\ PipelineIdle
  /\ AggIdle

\* lines 106-115: enter the while loop for the next block
StartBlock ==
  /\ pc = "blocks"
  /\ current_start < end_time
  /\ current_end' = BlockEnd(current_start, end_time)
  /\ block_data' = <<>>
  /\ retry_count' = 0
  /\ block_success' = FALSE
  /\ n_blocks' = n_blocks + 1
  /\ attempts' = 0
  /\ zero_attempts' = 0
  /\ got_any' = FALSE
  /\ fatal_seen' = FALSE
  /\ blk' = <<current_start, BlockEnd(current_start, end_time)>>
  /\ pc' = "attempt"
  /\ UNCHANGED <<pvars, avars>>
  /\ UNCHANGED <<fecha_inicio, end_time, remote, current_start, all_data,
                 offset, batch_errors, failed_blocks, total_days, failed_days,
                 collected, req_offset, req_result>>

\* lines 117-126: one more attempt of the block
StartAttempt ==
  /\ pc = "attempt"
  /\ MayAttempt(retry_count, block_success)
  /\ offset' = 0
  /\ block_data' = <<>>
  /\ batch_errors' = 0
  /\ attempts' = attempts + 1
  /\ req_offset' = 0
  /\ req_result' = "none"
  /\ pc' = "page"
  /\ UNCHANGED <<pvars, avars>>
  /\ UNCHANGED <<fecha_inicio, end_time, remote, current_start, current_end,
                 all_data, retry_count, block_success, failed_blocks,
                 total_days, failed_days, n_blocks, zero_attempts, got_any,
                 fatal_seen, blk, collected>>

\* lines 130-143: the page request returns
PageOk ==
  /\ pc = "page"
  /\ LET batch == Page(current_start, current_end, offset)
     IN /\ block_data' = block_data \o batch
        /\ offset' = IF batch = <<>> THEN offset ELSE offset + PageLimit
        /\ pc' = IF FinDePaginas(batch) THEN "eval" ELSE "page"
        /\ req_result' = TipoDePagina(batch)
  /\ req_offset' = offset
  /\ UNCHANGED <<pvars, avars>>
  /\ UNCHANGED <<fecha_inicio, end_time, remote, current_start, current_end,
                 all_data, retry_count, block_success, batch_errors,
                 failed_blocks, total_days, failed_days, n_blocks, attempts,
                 zero_attempts, got_any, fatal_seen, blk, collected>>

\* lines 145-157: the page request raises a timeout / connection error
PageTransient ==
  /\ pc = "page"
  /\ batch_errors' = batch_errors + 1
  /\ offset' = offset + PageLimit
  /\ pc' = DespuesDeError(TRUE, batch_errors + 1)
  /\ req_offset' = offset
  /\ req_result' = "transient"
  /\ UNCHANGED <<pvars, avars>>
  /\ UNCHANGED <<fecha_inicio, end_time, remote, current_start, current_end,
                 all_data, block_data, retry_count, block_success,
                 failed_blocks, total_days, failed_days, n_blocks, attempts,
                 zero_attempts, got_any, fatal_seen, blk, collected>>

\* lines 145-147, 158-160: the page request raises any other error
PageFatal ==
  /\ pc = "page"
  /\ batch_errors' = batch_errors + 1
  /\ fatal_seen' = TRUE
  /\ pc' = DespuesDeError(FALSE, batch_errors + 1)
  /\ req_offset' = offset
  /\ req_result' = "fatal"
  /\ UNCHANGED <<pvars, avars>>
  /\ UNCHANGED <<fecha_inicio, end_time, remote, current_start, current_end,
                 all_data, block_data, retry_count, block_success, offset,
                 failed_blocks, total_days, failed_days, n_blocks, attempts,
                 zero_attempts, got_any, blk, collected>>

\* lines 162-172: the attempt is over; decide on its record count
EvalAttempt ==
  /\ pc = "eval"
  /\ IF AttemptSucceeded(block_data, batch_errors)
     THEN /\ block_success' = TRUE
          /\ all_data' = all_data \o block_data
          /\ UNCHANGED retry_count
     ELSE /\ retry_count' = retry_count + 1
          /\ UNCHANGED <<block_success, all_data>>
  /\ got_any' = (got_any \/ Len(block_data) > 0)
  /\ zero_attempts' = IF Len(block_data) = 0 THEN zero_attempts + 1
                      ELSE zero_attempts
  /\ collected' = collected \o block_data
  /\ pausa_bloque' = IF AttemptSucceeded(block_data, batch_errors)
                     THEN 0 ELSE PausaBloque(retry_count + 1)
  /\ pc' = "attempt"
  /\ UNCHANGED <<pvars, gvars, lvars, xvars, ovars, pausas_completas, previas>>
  /\ UNCHANGED <<fecha_inicio, end_time, remote, current_start, current_end,
                 block_data, offset, batch_errors, failed_blocks, total_days,
                 failed_days, n_blocks, attempts, fatal_seen, blk, req_offset,
                 req_result>>

\* lines 174-179: the retry loop is left; record a lost block and advance
EndBlock ==
  /\ pc = "attempt"
  /\ ~MayAttempt(retry_count, block_success)
  /\ failed_blocks' = IF ~block_success
                      THEN Append(failed_blocks, <<current_start, current_end>>)
                      ELSE failed_blocks
  /\ current_start' = current_end
  /\ pc' = "blocks"
  /\ UNCHANGED <<pvars, avars>>
  /\ UNCHANGED <<fecha_inicio, end_time, remote, current_end, all_data,
                 block_data, retry_count, block_success, offset, batch_errors,
                 total_days, failed_days, n_blocks, attempts, zero_attempts,
                 got_any, fatal_seen, blk, collected, req_offset, req_result>>

\* lines 181-196: the coverage report
Report ==
  /\ pc = "blocks"
  /\ ~(current_start < end_time)
  /\ total_days' = TotalDays(fecha_inicio, end_time)
  /\ failed_days' = FailedDays(Len(failed_blocks))
  /\ pc' = "done"
  /\ UNCHANGED <<pvars, avars>>
  /\ UNCHANGED <<fecha_inicio, end_time, remote, current_start, current_end,
                 all_data, block_data, retry_count, block_success, offset,
                 batch_errors, failed_blocks, n_blocks, attempts,
                 zero_attempts, got_any, fatal_seen, blk, collected,
                 req_offset, req_result>>

NextFetch ==
  \/ StartBlock
  \/ StartAttempt
  \/ PageOk
  \/ PageTransient
  \/ PageFatal
  \/ EvalAttempt
  \/ EndBlock
  \/ Report

SpecFetch == InitFetch /\ [][NextFetch]_vars

\* The function runs on: no step of it waits for anything but its own loop.
\* lines 130-136: an observation after end_time is in no block's query
InitFetchLive == InitFetch /\ \A t \in remote : t <= end_time

SpecFetchLive == InitFetchLive /\ [][NextFetch]_vars /\ WF_vars(NextFetch)

\* ------------------------------------------------------ the pipeline run
\* The fetch variables while the pipeline takes the retrieval block by block.
FetchIdle ==
  /\ fecha_inicio = 0
  /\ end_time = 0
  /\ remote = {}
  /\ pc = "idle"
  /\ current_start = 0
  /\ current_end = 0
  /\ all_data = <<>>
  /\ block_data = <<>>
  /\ retry_count = 0
  /\ block_success = FALSE
  /\ offset = 0
  /\ batch_errors = 0
  /\ failed_blocks = <<>>
  /\ total_days = 0
  /\ failed_days = 0
  /\ n_blocks = 0
  /\ attempts = 0
  /\ zero_attempts = 0
  /\ got_any = FALSE
  /\ fatal_seen = FALSE
  /\ blk = <<0, 0>>
  /\ collected = <<>>
  /\ req_offset = 0
  /\ req_result = "none"

\* lines 259-265: the range of a run, from 00:00:00 of the day days_back days
\* ago to 23:59:59 of today.
RunStart == 0
RunEnd == days_back * DayTicks + (DayTicks - 1)

RECURSIVE CountBlocks(_, _)
\* lines 106-107, 179: the iterations of the block loop over [s, e)
CountBlocks(s, e) ==
  IF s < e THEN 1 + CountBlocks(BlockEnd(s, e), e) ELSE 0

\* A gate whose last attempt accepts a coverage of 40%.
GateDecision_lenient(att, td, fd, has) ==
  IF CovGE(td, fd, min_coverage)
  THEN IF has THEN "normal" ELSE "abort"
  ELSE IF att < max_complete_retries THEN "retry"
  ELSE IF CovGE(td, fd, 40) /\ has THEN "degraded" ELSE "abort"

\* A gate whose last attempt accepts whatever was retrieved.
GateDecision_anycov(att, td, fd, has) ==
  IF CovGE(td, fd, min_coverage)
  THEN IF has THEN "normal" ELSE "abort"
  ELSE IF att < max_complete_retries THEN "retry"
  ELSE IF has THEN "degraded" ELSE "abort"

\* A gate that allows one whole-run retrieval more.
GateDecision_fourth(att, td, fd, has) ==
  IF CovGE(td, fd, min_coverage)
  THEN IF has THEN "normal" ELSE "abort"
  ELSE IF att <= max_complete_retries THEN "retry"
  ELSE IF CovGE(td, fd, reduced_coverage) /\ has THEN "degraded" ELSE "abort"

\* lines 283-334: what the coverage gate does with the report of attempt att
GateDecision(att, td, fd, has) ==
  IF CovGE(td, fd, min_coverage)
  THEN IF has THEN "normal" ELSE "abort"
  ELSE IF att < max_complete_retries THEN "retry"
  ELSE IF CovGE(td, fd, reduced_coverage) /\ has THEN "degraded" ELSE "abort"

\* A retrieval that keeps the failed blocks of the attempt before it.
ReinicioFallidos_keep(prev) == prev

\* line 104 in the call of line 280: every retrieval starts with
\* failed_blocks = []
ReinicioFallidos(prev) == 0

\* A run that also writes the backup of a retrieval it is about to repeat.
RespaldoRaw_reintento(decision, io_ok) ==
  IF decision \in {"normal", "degraded", "retry"} /\ io_ok
  THEN {"raw_backup"} ELSE {}

\* A run that writes the backup before the gate has decided.
RespaldoRaw_always(decision, io_ok) ==
  IF io_ok THEN {"raw_backup"} ELSE {}

\* lines 286-298, 311-326: the raw backup, written inside try/except
RespaldoRaw(decision, io_ok) ==
  IF decision \in {"normal", "degraded"} /\ io_ok THEN {"raw_backup"} ELSE {}

\* ---- control_calidad_datos
Stations(df) == {s \in Sensors : df[s] # {}}
AllDates(df) == UNION {df[s] : s \in Sensors}
MaxOf(S) == CHOOSE x \in S : \A y \in S : y <= x

\* line 481: total_dias_disponibles = df['fecha'].nunique()
total_dias_disponibles(df) == Cardinality(AllDates(df))

\* A threshold taken from the length of the requested range.
umbral_minimo_dias_window(df) == (TotalDays(RunStart, RunEnd) * 8) \div 10

\* line 482: umbral_minimo_dias = int(total_dias_disponibles * 0.8)
umbral_minimo_dias(df) == (total_dias_disponibles(df) * 8) \div 10

\* lines 476-501: drop the sensors with fewer than umbral_minimo_dias dates
df_lluvia_completo(df) ==
  [s \in Sensors |->
     IF Cardinality(df[s]) < umbral_minimo_dias(df) THEN {} ELSE df[s]]

\* line 525: pd.date_range(end=fecha_final, periods=4)
ultimos_dias(fecha_final) == (fecha_final - (ultimos_periods - 1))..fecha_final

\* lines 528-534: the sensors counted in the last 4 days with fewer than 4
estaciones_incompletas(df) ==
  LET ult == ultimos_dias(MaxOf(AllDates(df)))
      conteo == [s \in {x \in Sensors : df[x] \cap ult # {}} |->
                   Cardinality(df[s] \cap ult)]
  IN {s \in DOMAIN conteo : conteo[s] < ultimos_periods}

\* lines 509-512: raise when rule 1 left nothing
ControlCalidadRaises(df) == Stations(df_lluvia_completo(df)) = {}

\* lines 467-559: the table control_calidad_datos returns
control_calidad_datos(df) ==
  LET df1 == df_lluvia_completo(df)
  IN [s \in Sensors |->
        IF s \in estaciones_incompletas(df1) THEN {} ELSE df1[s]]

\* ---- generar_formato_modelo
\* lines 602, 618-626: the sensors with a row in the window of the last
\* 30 days before fecha_final, one feature row each
Pivot(df) ==
  LET fecha_final == MaxOf(AllDates(df))
  IN {s \in Stations(df) :
        {d \in df[s] : d >= fecha_final - ventana_dias} # {}}

\* A feature builder that accepts an empty table.
GenerarRaises_lax(df) == FALSE

\* lines 596-598 (empty input) and 673 (no row in resultados)
GenerarRaises(df) == Stations(df) = {} \/ Pivot(df) = {}

\* line 612: ventanas = [1, 2, 3, 15, 30]
ventanas == <<1, 2, 3, 15, 30>>

\* lines 695-696: orden_columnas
orden_columnas ==
  <<"codigoestacion", "data", "daily rain", "1-rain ant.rain",
    "2-rain ant.rain", "3-rain ant.rain", "15-rain ant.rain",
    "30-rain ant.rain">>

\* modelo_sat/src/main.py lines 91-92: columnas_requeridas
columnas_requeridas ==
  <<"codigoestacion", "data", "daily rain", "1-rain ant.rain",
    "2-rain ant.rain", "3-rain ant.rain", "15-rain ant.rain",
    "30-rain ant.rain">>

\* lines 674-676: 'daily rain' if x == 0 else f'{x}-rain ant.rain'
nombre_columna(x) ==
  IF x = 0 THEN "daily rain" ELSE ToString(x) \o "-rain ant.rain"

\* The sensors in the order of groupby('codigoestacion') and of the pivot index.
SensorSeq == <<"A001", "B002">>

RECURSIVE Descendente(_, _)
\* line 623: sort_values('fecha', ascending=False) of the dates of S up to d
Descendente(S, d) ==
  IF d < 1 THEN <<>>
  ELSE (IF d \in S THEN <<d>> ELSE <<>>) \o Descendente(S, d - 1)

\* lines 602, 620-623: the rows of a sensor in the window, most recent first
datos_est(df, s) ==
  LET fecha_final == MaxOf(AllDates(df))
  IN Descendente({d \in df[s] : d >= fecha_final - ventana_dias}, fecha_final)

RECURSIVE SumaLluvia(_, _, _)
\* line 651: head(k)['lluvia_diaria'].sum() over the rows of dates fechas
SumaLluvia(val, fechas, k) ==
  IF k = 0 \/ fechas = <<>> THEN 0
  ELSE val[Head(fechas)] + SumaLluvia(val, Tail(fechas), k - 1)

\* An accumulation that takes the total of the row dias rows after day 0 only.
acumulado_solo_dia(df, val, s, dias) ==
  LET sin_dia0 == Tail(datos_est(df, s))
  IN IF dias <= Len(sin_dia0) THEN val[s][sin_dia0[dias]] ELSE 0

\* An accumulation that does not leave day 0 out.
acumulado_con_dia0(df, val, s, dias) ==
  SumaLluvia(val[s], datos_est(df, s), dias)

\* lines 647-651: datos_sin_dia0 = datos_est.iloc[1:], then head(dias).sum()
acumulado(df, val, s, dias) ==
  SumaLluvia(val[s], Tail(datos_est(df, s)), dias)

\* lines 653-656: the cut-off date of a horizon, the date of the row dias
\* rows after day 0 or the oldest date of the window
fecha_corte(de, dias) ==
  IF dias < Len(de) THEN de[dias + 1] ELSE de[Len(de)]

\* lines 638-666: the entries of resultados of a sensor, day 0 first
resultados(df, val, s) ==
  LET de == datos_est(df, s)
  IN <<[codigoestacion |-> s, dias_acumulados |-> 0,
        lluvia_acumulada |-> val[s][de[1]], fecha |-> de[1]]>>
     \o [k \in 1..Len(ventanas) |->
          [codigoestacion |-> s, dias_acumulados |-> ventanas[k],
           lluvia_acumulada |-> acumulado(df, val, s, ventanas[k]),
           fecha |-> fecha_corte(de, ventanas[k])]]

\* A date column taken from the entries of the first horizon.
fecha_daily_de_corte(res) ==
  (CHOOSE r \in {res[k] : k \in 1..Len(res)} : r.dias_acumulados = 1).fecha

\* lines 685-686: fecha_daily, the fecha of the entries with
\* dias_acumulados == 0, renamed data
fecha_daily(res) ==
  (CHOOSE r \in {res[k] : k \in 1..Len(res)} : r.dias_acumulados = 0).fecha

\* lines 671-692: the columns the pivot and the merge give a sensor
fila_pivot(df, val, s) ==
  LET res == resultados(df, val, s)
      entrada(c) == CHOOSE r \in {res[k] : k \in 1..Len(res)} :
                      nombre_columna(r.dias_acumulados) = c
  IN [c \in {"codigoestacion", "data", nombre_columna(0)}
             \cup {nombre_columna(ventanas[i]) : i \in 1..Len(ventanas)} |->
        CASE c = "codigoestacion" -> s
          [] c = "data" -> fecha_daily(res)
          [] OTHER -> entrada(c).lluvia_acumulada]

\* line 698: resultados_pivot[orden_columnas]
fila_modelo(df, val, s) ==
  LET fila == fila_pivot(df, val, s)
  IN [c \in {orden_columnas[i] : i \in 1..Len(orden_columnas)} |-> fila[c]]

\* A merge that returns every row of the pivot twice.
generar_formato_modelo_doble(df, val) ==
  LET con_fila(s) == s \in Pivot(df)
      estaciones == SelectSeq(SensorSeq, con_fila)
      filas == [i \in 1..Len(estaciones) |-> fila_modelo(df, val, estaciones[i])]
  IN filas \o filas

\* lines 591-702: the table generar_formato_modelo returns
generar_formato_modelo(df, val) ==
  LET con_fila(s) == s \in Pivot(df)
      estaciones == SelectSeq(SensorSeq, con_fila)
  IN [i \in 1..Len(estaciones) |-> fila_modelo(df, val, estaciones[i])]

\* ---- guardar_resultados
\* lines 724-756: the files written when the k-th write raises
SavedFiles(k) ==
  (IF k >= 1 THEN {"lluvia_30d"} ELSE {})
  \cup (IF k >= 2 THEN {"latest"} ELSE {})
  \cup (IF k >= 3 THEN {"resumen"} ELSE {})

Init ==
  /\ stage = "start"
  /\ estaciones_exists \in BOOLEAN
  /\ region_exists \in BOOLEAN
  /\ region_readable \in BOOLEAN
  /\ region_readable => region_exists
  /\ attempt = 0
  /\ run_block = 0
  /\ run_failed = 0
  /\ run_has_data = FALSE
  /\ cov_total = 0
  /\ cov_failed = 0
  /\ gate = "pending"
  /\ files = {}
  /\ written_rows = {}
  /\ andina = "none"
  /\ daily = EmptyTable
  /\ filtrado = EmptyTable
  /\ pivot = {}
  /\ exit_code = -1
  /\ abort_at = "none"
  /\ completo = EmptyTable
  /\ attempt_lost = 0
  /\ valor = ValorBase
  /\ features = <<>>
  /\ FetchIdle
  /\ AggIdle

\* lines 788-790: an exception of a stage reaches main, which returns 1
Abort(where) ==
  /\ stage' = "exit"
  /\ exit_code' = 1
  /\ abort_at' = where

\* A verification that looks for the sensor registry only.
verificar_archivos_entrada_solo_estaciones(est, reg) == est

\* lines 59-72: every file of archivos_requeridos exists
verificar_archivos_entrada(est, reg) == est /\ reg

\* lines 256-257: the two static inputs must exist
VerificarArchivos ==
  /\ stage = "start"
  /\ IF verificar_archivos_entrada(estaciones_exists, region_exists)
     THEN /\ stage' = "fetch"
          /\ UNCHANGED <<exit_code, abort_at>>
     ELSE Abort("inputs")
  /\ UNCHANGED <<estaciones_exists, region_exists, region_readable, attempt,
                 run_block, run_failed, run_has_data, cov_total, cov_failed,
                 gate, files, written_rows, andina, daily, filtrado, pivot,
                 completo, attempt_lost>>
  /\ UNCHANGED <<fvars, avars, valor, features>>

\* lines 106-179 inside the call of line 280: one block is decided, lost
\* (no attempt returned a record) or retrieved (an attempt returned some)
FetchBlock ==
  /\ stage = "fetch"
  /\ run_block < CountBlocks(RunStart, RunEnd)
  /\ \E ok \in BOOLEAN :
       /\ run_failed' = IF ok THEN run_failed ELSE run_failed + 1
       /\ run_has_data' = (run_has_data \/ ok)
       /\ attempt_lost' = IF ok THEN attempt_lost ELSE attempt_lost + 1
  /\ run_block' = run_block + 1
  /\ UNCHANGED <<stage, estaciones_exists, region_exists, region_readable,
                 attempt, cov_total, cov_failed, gate, files, written_rows,
                 andina, daily, filtrado, pivot, exit_code, abort_at,
                 completo>>
  /\ UNCHANGED <<fvars, avars, valor, features>>

\* lines 181-196 and 273-334: the coverage report and the gate
CoverageGate ==
  /\ stage = "fetch"
  /\ run_block = CountBlocks(RunStart, RunEnd)
  /\ LET td == TotalDays(RunStart, RunEnd)
         fd == FailedDays(run_failed)
         decision == GateDecision(attempt, td, fd, run_has_data)
     IN /\ cov_total' = td
        /\ cov_failed' = fd
        /\ \E io_ok \in BOOLEAN : files' = files \cup RespaldoRaw(decision, io_ok)
        /\ CASE decision = "retry" ->
                  /\ attempt' = attempt + 1
                  /\ pausas_completas' =
                       Append(pausas_completas, PausaCompleta(attempt + 1))
                  /\ run_block' = 0
                  /\ run_failed' = ReinicioFallidos(run_failed)
                  /\ run_has_data' = FALSE
                  /\ attempt_lost' = 0
                  /\ UNCHANGED <<stage, gate, exit_code, abort_at>>
             [] decision = "abort" ->
                  /\ gate' = "abort"
                  /\ Abort("gate")
                  /\ UNCHANGED <<attempt, run_block, run_failed, run_has_data,
                                 attempt_lost, pausas_completas>>
             [] OTHER ->
                  /\ gate' = decision
                  /\ stage' = "filter"
                  /\ UNCHANGED <<attempt, run_block, run_failed, run_has_data,
                                 attempt_lost, exit_code, abort_at,
                                 pausas_completas>>
  /\ UNCHANGED <<estaciones_exists, region_exists, region_readable,
                 written_rows, andina, daily, filtrado, pivot, completo>>
  /\ UNCHANGED <<fvars, gvars, lvars, xvars, ovars, pausa_bloque, previas,
                 valor, features>>

\* lines 200-252 called at line 372
FiltrarRegionAndina ==
  /\ stage = "filter"
  /\ IF ~region_readable
     THEN /\ Abort("filter")
          /\ UNCHANGED andina
     ELSE /\ \E r \in {"empty", "rows"} : andina' = r
          /\ stage' = "daily"
          /\ UNCHANGED <<exit_code, abort_at>>
  /\ UNCHANGED <<estaciones_exists, region_exists, region_readable, attempt,
                 run_block, run_failed, run_has_data, cov_total, cov_failed,
                 gate, files, written_rows, daily, filtrado, pivot, completo,
                 attempt_lost>>
  /\ UNCHANGED <<fvars, avars, valor, features>>

\* lines 390-414: the daily totals of the filtered observations
ProcesarLluviaDiaria ==
  /\ stage = "daily"
  /\ \E t \in [Sensors -> SUBSET Dates] :
       /\ andina = "empty" => t = EmptyTable
       /\ daily' = t
  /\ stage' = "quality"
  /\ UNCHANGED <<estaciones_exists, region_exists, region_readable, attempt,
                 run_block, run_failed, run_has_data, cov_total, cov_failed,
                 gate, files, written_rows, andina, filtrado, pivot,
                 exit_code, abort_at, completo, attempt_lost>>
  /\ UNCHANGED <<fvars, avars, valor, features>>

\* line 417: control_calidad_datos
ControlCalidad ==
  /\ stage = "quality"
  /\ completo' = df_lluvia_completo(daily)
  /\ IF ControlCalidadRaises(daily)
     THEN /\ Abort("quality")
          /\ UNCHANGED filtrado
     ELSE /\ filtrado' = control_calidad_datos(daily)
          /\ stage' = "model"
          /\ UNCHANGED <<exit_code, abort_at>>
  /\ UNCHANGED <<estaciones_exists, region_exists, region_readable, attempt,
                 run_block, run_failed, run_has_data, cov_total, cov_failed,
                 gate, files, written_rows, andina, daily, pivot,
                 attempt_lost>>
  /\ UNCHANGED <<fvars, avars, valor, features>>

\* lines 420-425: generar_formato_modelo, then validar_datos_lluvia (logs only)
GenerarFormatoModelo ==
  /\ stage = "model"
  /\ IF GenerarRaises(filtrado)
     THEN /\ Abort("model")
          /\ UNCHANGED <<pivot, features>>
     ELSE /\ pivot' = Pivot(filtrado)
          /\ features' = generar_formato_modelo(filtrado, valor)
          /\ stage' = "save"
          /\ UNCHANGED <<exit_code, abort_at>>
  /\ UNCHANGED <<estaciones_exists, region_exists, region_readable, attempt,
                 run_block, run_failed, run_has_data, cov_total, cov_failed,
                 gate, files, written_rows, andina, daily, filtrado, completo,
                 attempt_lost, valor>>
  /\ UNCHANGED <<fvars, avars>>

\* lines 704-764 called at line 780: k writes succeed, the next one raises
GuardarResultados ==
  /\ stage = "save"
  /\ IF pivot = {}
     THEN /\ Abort("save")
          /\ UNCHANGED <<files, written_rows>>
     ELSE \E k \in 0..3 :
            /\ files' = files \cup SavedFiles(k)
            /\ written_rows' = IF k >= 1 THEN pivot ELSE written_rows
            /\ IF k = 3
               THEN /\ stage' = "exit"
                    /\ exit_code' = 0
                    /\ UNCHANGED abort_at
               ELSE Abort("save")
  /\ UNCHANGED <<estaciones_exists, region_exists, region_readable, attempt,
                 run_block, run_failed, run_has_data, cov_total, cov_failed,
                 gate, andina, daily, filtrado, pivot, completo, attempt_lost>>
  /\ UNCHANGED <<fvars, avars, valor, features>>

Next ==
  \/ VerificarArchivos
  \/ FetchBlock
  \/ CoverageGate
  \/ FiltrarRegionAndina
  \/ ProcesarLluviaDiaria
  \/ ControlCalidad
  \/ GenerarFormatoModelo
  \/ GuardarResultados

Spec == Init /\ [][Next]_vars

\* ------------------------------- the two table stages on the 31-day range
\* lines 259-265: today, the last calendar day of the range
UltimoDia == days_back + 1

\* A daily table: sensor A001 has the days a..UltimoDia but the one g days
\* before UltimoDia (g = 0: none missing), sensor B002 the days 1..b.
Tabla(a, b, g) ==
  [s \in Sensors |->
     IF s = "A001"
     THEN {d \in a..UltimoDia : g = 0 \/ d # UltimoDia - g}
     ELSE 1..b]

\* Daily totals of 10, 0, 5 and 2 mm on the four most recent days of A001.
ValorEscenario ==
  [ValorBase EXCEPT !["A001"] =
     [d \in AllDays |->
        CASE d = UltimoDia -> 10
          [] d = UltimoDia - 1 -> 0
          [] d = UltimoDia - 2 -> 5
          [] d = UltimoDia - 3 -> 2
          [] OTHER -> 1]]

\* Daily totals drawn freely on the three most recent days of A001; line 400
\* converts valorobservado to a number and keeps its sign.
ValoresLibres ==
  {[ValorBase EXCEPT !["A001"] =
      [d \in AllDays |->
         IF d > UltimoDia - 3 THEN v[d] ELSE ValorBase["A001"][d]]] :
     v \in [(UltimoDia - 2)..UltimoDia -> (-1)..MaxVal]}
  \cup {ValorEscenario}

\* lines 254-414: a run whose retrieval was accepted and filtered
MidRun ==
  /\ estaciones_exists = TRUE
  /\ region_exists = TRUE
  /\ region_readable = TRUE
  /\ attempt = 0
  /\ run_block = CountBlocks(RunStart, RunEnd)
  /\ run_failed = 0
  /\ run_has_data = TRUE
  /\ cov_total = TotalDays(RunStart, RunEnd)
  /\ cov_failed = 0
  /\ gate = "normal"
  /\ files = {}
  /\ written_rows = {}
  /\ andina = "rows"
  /\ pivot = {}
  /\ exit_code = -1
  /\ abort_at = "none"
  /\ attempt_lost = 0
  /\ features = <<>>
  /\ FetchIdle
  /\ AggIdle

\* line 417: a table about to be handed to control_calidad_datos
AntesDeControl(t, val) ==
  /\ stage = "quality"
  /\ daily = t
  /\ completo = EmptyTable
  /\ filtrado = EmptyTable
  /\ valor = val
  /\ MidRun

\* line 420: a table about to be handed to generar_formato_modelo
AntesDeGenerar(t, val) ==
  /\ stage = "model"
  /\ daily = t
  /\ completo = t
  /\ filtrado = t
  /\ valor = val
  /\ MidRun

InitTabla ==
  \/ \E a \in AllDays, g \in 0..MaxGap, val \in ValoresLibres :
        AntesDeGenerar(Tabla(a, 0, g), val)
  \/ \E a \in AllDays, b \in 0..UltimoDia :
        AntesDeGenerar(Tabla(a, b, 0), ValorBase)
  \/ \E a \in AllDays, b \in 0..UltimoDia :
        AntesDeControl(Tabla(a, b, 0), ValorBase)

NextTabla ==
  \/ ControlCalidad
  \/ GenerarFormatoModelo

SpecTabla == InitTabla /\ [][NextTabla]_vars

\* ------------------------- control_calidad_datos on 25 of 30 window days
\* Sensor A001 reports on each of the days_back days, sensor B002 on all of
\* them but five, the last day among the five.
InitRecencia ==
  \E a, b, c, d \in 1..(days_back - 1) :
    /\ a < b /\ b < c /\ c < d
    /\ AntesDeControl([s \in Sensors |->
                         IF s = "A001" THEN 1..days_back
                         ELSE (1..days_back) \ {a, b, c, d, days_back}],
                      ValorBase)

NextRecencia == ControlCalidad

SpecRecencia == InitRecencia /\ [][NextRecencia]_vars

\* ----------------------------------------------------- properties of Spec
\* C1: every sensor in the output of control_calidad_datos has daily totals
\* on at least floor(0.8*T) distinct dates (T as the code counts it, the
\* distinct dates of the daily table) and a row on each of the 4 consecutive
\* dates ending at the most recent date of the data that survived rule 1.
C1_QualityGateOutput ==
  stage = "model" =>
    LET T == Cardinality(UNION {daily[s] : s \in Sensors})
        passed == {s \in Sensors :
                     daily[s] # {} /\ Cardinality(daily[s]) >= (8 * T) \div 10}
        fecha_max == MaxOf(UNION {daily[s] : s \in passed})
    IN \A s \in Sensors :
         filtrado[s] # {} =>
           /\ Cardinality(filtrado[s]) >= (8 * T) \div 10
           /\ \A d \in (fecha_max - 3)..fecha_max : d \in filtrado[s]

\* C2: once the whole-run retries are over, the run goes on to the Spatial
\* Filter iff the final coverage is >= 50% and at least one record was
\* retrieved (normal from 70%, degraded from 50% to below 70%); otherwise it
\* aborts and main returns 1.
C2_CoverageGate ==
  LET cov50 == 100 * (cov_total - cov_failed) >= 50 * cov_total
      cov70 == 100 * (cov_total - cov_failed) >= 70 * cov_total
  IN /\ stage \in {"filter", "daily", "quality", "model", "save"}
          => gate \in {"normal", "degraded"}
     /\ gate \in {"normal", "degraded"} =>
          /\ cov50 /\ run_has_data
          /\ gate = "normal" <=> cov70
          /\ stage # "fetch"
     /\ gate = "abort" =>
          /\ ~cov50 \/ ~run_has_data
          /\ stage = "exit" /\ exit_code = 1 /\ abort_at = "gate"
     /\ (gate = "pending" /\ stage = "exit") => abort_at = "inputs"

\* C2 witness: the last attempt reported between 50% and 70% and the run
\* went on, degraded, to the Spatial Filter.
C2_Witness == gate = "degraded" /\ stage = "filter" /\ attempt = 2

C33_BackupExactlyWhenAccepted ==
  "raw_backup" \in files <=> gate \in {"normal", "degraded"}

\* C33 amended: the backup exists only when the gate has accepted a retrieval
\* with a record (70% or more, or 50% or more on the last attempt), never
\* while a retrieval is under way and never in a run that aborts at the gate;
\* it is written in the step in which the gate accepts, before the Spatial
\* Filter has started. The write may fail and the run goes on without it.
C33_BackupOnlyWhenAccepted ==
  /\ []("raw_backup" \in files =>
          /\ gate \in {"normal", "degraded"}
          /\ CovGE(cov_total, cov_failed, reduced_coverage)
          /\ gate = "degraded" => attempt = max_complete_retries
          /\ gate = "normal" => CovGE(cov_total, cov_failed, min_coverage)
          /\ run_has_data
          /\ stage \notin {"start", "fetch"}
          /\ abort_at \notin {"inputs", "gate"})
  /\ [][("raw_backup" \notin files /\ "raw_backup" \in files') =>
          (stage = "fetch" /\ stage' = "filter" /\ andina' = "none")]_vars

\* C33 witness: the gate accepted 70% or more and the backup is there when
\* the Spatial Filter is about to start.
C33_Witness ==
  /\ stage = "filter"
  /\ gate = "normal"
  /\ andina = "none"
  /\ files = {"raw_backup"}
  /\ attempt = 1

\* The gate accepted the retrieval and the write of the backup failed.
AceptadoSinRespaldo ==
  /\ stage = "filter"
  /\ gate \in {"normal", "degraded"}
  /\ "raw_backup" \notin files

\* C4: the feature table files are written only in a run whose retrieval
\* passed the coverage gate, whose Quality Gate left a sensor and whose
\* Feature Builder returned, and what is written is the Feature Builder's
\* table, of at least one sensor row.
C4_FeatureTableComplete ==
  (files \cap {"lluvia_30d", "latest"} # {}) =>
     /\ 100 * (cov_total - cov_failed) >= 50 * cov_total
     /\ run_has_data
     /\ \E s \in Sensors : filtrado[s] # {}
     /\ pivot # {}
     /\ written_rows = pivot
     /\ Cardinality(written_rows) >= 1
     /\ "lluvia_30d" \in files

\* C4 witness: a degraded run wrote both feature table files and ended well.
C4_Witness ==
  /\ {"lluvia_30d", "latest"} \subseteq files
  /\ exit_code = 0
  /\ gate = "degraded"

\* C11: the whole-run retrieval is executed at most three times; a further
\* retrieval is under way only after a report below 70%, and once a report
\* of 70% or more exists no retrieval is under way again.
C11_AtMostThreeAttempts ==
  /\ attempt <= max_complete_retries
  /\ (stage = "fetch" /\ attempt = 0) => cov_total = 0
  /\ (stage = "fetch" /\ attempt > 0) =>
        /\ cov_total > 0
        /\ ~CovGE(cov_total, cov_failed, min_coverage)
  /\ (cov_total > 0 /\ CovGE(cov_total, cov_failed, min_coverage)) =>
        stage # "fetch"

\* C11 witness: the third retrieval is under way after two reports below 70%.
C11_Witness ==
  /\ stage = "fetch"
  /\ attempt = max_complete_retries
  /\ run_block > 0
  /\ ~CovGE(cov_total, cov_failed, min_coverage)

\* C12 as stated: the coverage a later whole-run attempt reports is never
\* lower than the coverage an earlier attempt of the same run reported.
C12_CoverageNeverLower ==
  [][cov_total > 0 =>
       (cov_total' - cov_failed') * cov_total
          >= (cov_total - cov_failed) * cov_total']_vars

\* C12 amended: the coverage an attempt reports is computed from the blocks
\* lost in that attempt alone; every retrieval starts with an empty list of
\* failed blocks, so nothing of an earlier attempt enters a later report.
C12_CoverageOfAttemptAlone ==
  /\ run_failed = attempt_lost
  /\ gate # "pending" =>
        /\ cov_total = TotalDays(RunStart, RunEnd)
        /\ cov_failed = FailedDays(attempt_lost)

\* C12 witness: a second attempt that lost blocks of its own passed the gate.
C12_Witness ==
  /\ gate = "normal"
  /\ attempt = 1
  /\ attempt_lost > 0
  /\ cov_failed = attempt_lost

\* control_calidad_datos has been called in this run.
QualityRan ==
  \/ stage \in {"model", "save"}
  \/ stage = "exit" /\ (abort_at \in {"quality", "model", "save"}
                         \/ exit_code = 0)

\* C15 as stated: a sensor passes rule 1 exactly when it has daily totals on
\* at least floor(0.8*T) dates, T being the length in days of the whole
\* ingestion window.
C15_ThresholdOfWindow ==
  QualityRan =>
    \A s \in Sensors :
      completo[s] # {} <=>
        /\ daily[s] # {}
        /\ Cardinality(daily[s]) >= (8 * TotalDays(RunStart, RunEnd)) \div 10

\* C15 amended: T is the number of distinct dates present in the daily table;
\* a sensor with fewer than floor(0.8*T) dates is removed entirely and a
\* sensor with at least that many passes rule 1 with all its rows.
C15_ThresholdOfDatesPresent ==
  QualityRan =>
    \A s \in Sensors :
      completo[s] =
        IF Cardinality(daily[s])
             >= (8 * Cardinality(UNION {daily[x] : x \in Sensors})) \div 10
        THEN daily[s] ELSE {}

\* C15 witness: with fewer dates present than the window has days, one sensor
\* passed rule 1 without having every date and another one was removed.
C15_Witness ==
  /\ QualityRan
  /\ \E s, t \in Sensors :
       /\ daily[s] # {} /\ completo[s] = {}
       /\ completo[t] # {}
       /\ Cardinality(daily[t]) < Cardinality(AllDates(daily))

\* C20: when no sensor is left after both rules of control_calidad_datos the
\* run ends with exit code 1 in control_calidad_datos or in
\* generar_formato_modelo, and no feature table is produced or written.
C20_NoTableWhenNoSensor ==
  (QualityRan /\ Stations(filtrado) = {}) =>
     /\ stage \in {"model", "exit"}
     /\ stage = "exit" => (exit_code = 1 /\ abort_at \in {"quality", "model"})
     /\ pivot = {}
     /\ written_rows = {}
     /\ files \cap {"lluvia_30d", "latest", "resumen"} = {}

\* C20 witness: rule 1 left a sensor, rule 2 removed every sensor, and the
\* run was aborted by generar_formato_modelo.
C20_Witness ==
  /\ stage = "exit"
  /\ abort_at = "model"
  /\ Stations(completo) # {}
  /\ Stations(filtrado) = {}
  /\ exit_code = 1

\* C24: when the sensor registry file or the region file is missing the run
\* ends with exit code 1 at the verification of the inputs: no block of the
\* remote dataset is requested, no retrieval is reported and no file is
\* written.
C24_NoActivityWithoutInputs ==
  (~estaciones_exists \/ ~region_exists) =>
     /\ stage \in {"start", "exit"}
     /\ run_block = 0
     /\ attempt = 0
     /\ cov_total = 0
     /\ gate = "pending"
     /\ files = {}
     /\ stage = "exit" => (exit_code = 1 /\ abort_at = "inputs")

\* C24 witness: the run ended at the verification, the region file missing.
C24_Witness ==
  /\ stage = "exit"
  /\ abort_at = "inputs"
  /\ estaciones_exists
  /\ ~region_exists
  /\ files = {}

\* --------------------------------- the groupby of procesar_lluvia_diaria
\* A municipio or departamento the record of the API does not carry (NaN).
Nulo == "NaN"

\* lines 397-404: the observations of df_andina, the date already taken from
\* fechaobservacion; they fall on the first or on the last date
Observacion ==
  [codigoestacion : Sensors, fecha : {1, MaxDate}, valorobservado : 0..MaxVal,
   municipio : {"Bello", "Itagui", Nulo}, departamento : {"Antioquia", Nulo}]

RECURSIVE SumaObservada(_, _)
\* line 411: ['valorobservado'].sum() over the observations of indices I
SumaObservada(obs, I) ==
  IF I = {} THEN 0
  ELSE LET i == CHOOSE j \in I : TRUE
       IN obs[i].valorobservado + SumaObservada(obs, I \ {i})

\* line 409: the group of an observation; groupby leaves out (dropna=True)
\* the observations with a null key
Clave(o) == <<o.codigoestacion, o.fecha, o.municipio, o.departamento>>
Agrupable(o) == o.municipio # Nulo /\ o.departamento # Nulo

\* lines 407-412: df_lluvia_diaria
lluvia_diaria(obs) ==
  {[codigoestacion |-> k[1], fecha |-> k[2], municipio |-> k[3],
    departamento |-> k[4],
    lluvia_diaria |->
      SumaObservada(obs, {i \in 1..Len(obs) :
                            Agrupable(obs[i]) /\ Clave(obs[i]) = k})] :
     k \in {Clave(obs[i]) : i \in {j \in 1..Len(obs) : Agrupable(obs[j])}}}

InitAgg ==
  /\ agg_pc = "input"
  /\ observaciones \in UNION {[1..n -> Observacion] : n \in 0..MaxObs}
  /\ filas_diarias = {}
  /\ LocalIdle
  /\ FiltroIdle
  /\ HistIdle
  /\ OrqIdle
  /\ PipelineIdle
  /\ FetchIdle

\* lines 407-412
AgruparLluviaDiaria ==
  /\ agg_pc = "input"
  /\ filas_diarias' = lluvia_diaria(observaciones)
  /\ agg_pc' = "done"
  /\ UNCHANGED observaciones
  /\ UNCHANGED <<fvars, pvars, lvars, xvars, hvars, ovars>>

NextAgg == AgruparLluviaDiaria

SpecAgg == InitAgg /\ [][NextAgg]_vars

\* ------------------------------------------------ properties of SpecAgg
RECURSIVE SumaFilas(_)
\* The sum of lluvia_diaria over a set of daily rows.
SumaFilas(F) ==
  IF F = {} THEN 0
  ELSE LET f == CHOOSE g \in F : TRUE
       IN f.lluvia_diaria + SumaFilas(F \ {f})

\* The daily rows of a sensor and date.
FilasDe(s, d) ==
  {f \in filas_diarias : f.codigoestacion = s /\ f.fecha = d}

\* The observations of a sensor and date.
ObservacionesDe(s, d) ==
  {i \in 1..Len(observaciones) :
     observaciones[i].codigoestacion = s /\ observaciones[i].fecha = d}

\* C13: for every sensor and date the daily totals add up to the sum of
\* valorobservado over all the observations of that sensor and date, those
\* with a null municipio or departamento included.
C13_ConservationOfMass ==
  agg_pc = "done" =>
    \A s \in Sensors, d \in {1, MaxDate} :
      SumaFilas(FilasDe(s, d))
        = SumaObservada(observaciones, ObservacionesDe(s, d))

\* C14: every sensor and date with an observation has exactly one daily row,
\* also when municipio or departamento differ between its observations
\* (stated for the observations that carry both fields).
C14_OneRowPerSensorDate ==
  agg_pc = "done" =>
    \A s \in Sensors, d \in {1, MaxDate} :
      (/\ ObservacionesDe(s, d) # {}
       /\ \A i \in ObservacionesDe(s, d) : Agrupable(observaciones[i])) =>
         Cardinality(FilasDe(s, d)) = 1

\* ------------------------------------------- properties of SpecRecencia
\* C16: a sensor with daily totals on 25 of the 30 window days and none on
\* the most recent date of the table is excluded by control_calidad_datos,
\* whichever five days it misses.
C16_ExcludedByRecency ==
  (/\ stage = "model"
   /\ Cardinality(daily["B002"]) = days_back - 5
   /\ Cardinality(AllDates(daily)) = days_back
   /\ MaxOf(AllDates(daily)) \notin daily["B002"]) =>
     filtrado["B002"] = {}

\* ---------------------------------------------- properties of SpecTabla
\* generar_formato_modelo has returned a table in this run.
ModeloGenerado ==
  \/ stage = "save"
  \/ stage = "exit" /\ (abort_at = "save" \/ exit_code = 0)

RECURSIVE SumaDe(_, _)
\* The sum of val over the dates of S.
SumaDe(val, S) ==
  IF S = {} THEN 0
  ELSE LET x == CHOOSE y \in S : TRUE
       IN val[x] + SumaDe(val, S \ {x})

\* C17: in every row of the feature table daily rain is the total of the
\* sensor's most recent date of the window (day 0) and each h-rain ant.rain is
\* the sum of the min(h, n-1) rows that precede day 0 most closely, n being
\* the rows of the sensor in the window; totals of 10, 0, 5, 2 give 10, 0, 5
\* and 7, and with all 30 days of the window present 1-rain ant.rain is the
\* total of the day before day 0.
C17_Accumulations ==
  ModeloGenerado =>
    \A i \in 1..Len(features) :
      LET s == features[i]["codigoestacion"]
          W == {d \in filtrado[s] :
                  d >= MaxOf(AllDates(filtrado)) - ventana_dias}
          d0 == MaxOf(W)
          n == Cardinality(W)
          Previas(h) ==
            {d \in W : d < d0 /\ Cardinality({e \in W : d < e /\ e < d0}) < h}
          col == (1 :> "1-rain ant.rain" @@ 2 :> "2-rain ant.rain"
                  @@ 3 :> "3-rain ant.rain" @@ 15 :> "15-rain ant.rain"
                  @@ 30 :> "30-rain ant.rain")
      IN /\ features[i]["data"] = d0
         /\ features[i]["daily rain"] = valor[s][d0]
         /\ \A h \in DOMAIN col :
              /\ Cardinality(Previas(h)) = Min(h, n - 1)
              /\ features[i][col[h]] = SumaDe(valor[s], Previas(h))
         /\ (n = 4 /\ W = (d0 - 3)..d0 /\ valor[s][d0] = 10
             /\ valor[s][d0 - 1] = 0 /\ valor[s][d0 - 2] = 5
             /\ valor[s][d0 - 3] = 2) =>
              /\ features[i]["daily rain"] = 10
              /\ features[i]["1-rain ant.rain"] = 0
              /\ features[i]["2-rain ant.rain"] = 5
              /\ features[i]["3-rain ant.rain"] = 7
         /\ W = (d0 - ventana_dias)..d0 =>
              features[i]["1-rain ant.rain"] = valor[s][d0 - 1]

\* C17 witness: the row of a sensor with totals of 10, 0, 5 and 2 mm on its
\* four days.
C17_Witness ==
  /\ ModeloGenerado
  /\ Cardinality(filtrado["A001"]) = 4
  /\ \E i \in 1..Len(features) :
       /\ features[i]["codigoestacion"] = "A001"
       /\ features[i]["daily rain"] = 10
       /\ features[i]["1-rain ant.rain"] = 0
       /\ features[i]["2-rain ant.rain"] = 5
       /\ features[i]["3-rain ant.rain"] = 7
       /\ features[i]["30-rain ant.rain"] = 7

\* C18: every sensor of the filtered table has a feature row, built from the
\* window of 30 dates that ends at the sensor's own most recent date.
C18_OwnWindow ==
  ModeloGenerado =>
    \A s \in Stations(filtrado) :
      LET own == {d \in filtrado[s] : d >= MaxOf(filtrado[s]) - ventana_dias}
      IN \E i \in 1..Len(features) :
           /\ features[i]["codigoestacion"] = s
           /\ features[i]["data"] = MaxOf(own)
           /\ features[i]["30-rain ant.rain"]
                = SumaDe(valor[s], own \ {MaxOf(own)})

\* C19: the feature table has one row for each sensor with a row in the
\* window and no other row, no sensor twice, and its columns are
\* codigoestacion, data, daily rain and the 1-, 2-, 3-, 15- and 30-rain
\* ant.rain in this order, each column the model loader requires among them.
C19_OneRowPerSensor ==
  ModeloGenerado =>
    /\ \A i, j \in 1..Len(features) :
         features[i]["codigoestacion"] = features[j]["codigoestacion"] => i = j
    /\ {features[i]["codigoestacion"] : i \in 1..Len(features)}
         = {s \in Sensors :
              \E d \in filtrado[s] :
                 d >= MaxOf(AllDates(filtrado)) - ventana_dias}
    /\ orden_columnas
         = <<"codigoestacion", "data", "daily rain", "1-rain ant.rain",
             "2-rain ant.rain", "3-rain ant.rain", "15-rain ant.rain",
             "30-rain ant.rain">>
    /\ \A i \in 1..Len(features) :
         DOMAIN features[i]
           = {orden_columnas[k] : k \in 1..Len(orden_columnas)}
    /\ \A k \in 1..Len(columnas_requeridas) :
         \E j \in 1..Len(orden_columnas) :
            orden_columnas[j] = columnas_requeridas[k]

\* C19 witness: a table of one row, the second sensor having no date in the
\* window.
C19_Witness ==
  /\ ModeloGenerado
  /\ Len(features) = 1
  /\ features[1]["codigoestacion"] = "A001"
  /\ filtrado["B002"] # {}

\* C25: in every row of the feature table the five accumulation columns
\* 1-, 2-, 3-, 15- and 30-rain ant.rain are each non-negative.
C25_NonNegativeAccumulations ==
  ModeloGenerado =>
    \A i \in 1..Len(features) :
      \A k \in 1..Len(ventanas) :
        features[i][nombre_columna(ventanas[k])] >= 0

\* C34: the data column of a row is the most recent date of that sensor in
\* the window, the date of its daily rain, which may differ between sensors;
\* every accumulation is the sum of the totals of the rows after day 0 that
\* the horizon reaches, and the cut-off date of the horizon is in no column.
C34_OwnAnchorDate ==
  ModeloGenerado =>
    \A i \in 1..Len(features) :
      LET s == features[i]["codigoestacion"]
          W == {d \in filtrado[s] :
                  d >= MaxOf(AllDates(filtrado)) - ventana_dias}
          Antes(d) == Cardinality({e \in W : e > d})
      IN /\ features[i]["data"] \in W
         /\ \A d \in W : d <= features[i]["data"]
         /\ features[i]["daily rain"] = valor[s][features[i]["data"]]
         /\ DOMAIN features[i]
              = {orden_columnas[k] : k \in 1..Len(orden_columnas)}
         /\ \A k \in 1..Len(ventanas) :
              features[i][nombre_columna(ventanas[k])]
                = SumaDe(valor[s],
                         {d \in W : Antes(d) >= 1 /\ Antes(d) <= ventanas[k]})

\* C34 witness: two rows with different dates in the data column.
C34_Witness ==
  /\ ModeloGenerado
  /\ Len(features) = 2
  /\ features[1]["data"] > features[2]["data"]
  /\ Cardinality(filtrado["B002"]) >= 2

\* C37: in the row of a sensor whose daily totals are all 0 or more the
\* accumulations do not decrease from one horizon to the next, and two
\* horizons that both reach every row after day 0 have the same accumulation.
C37_MonotoneInHorizon ==
  ModeloGenerado =>
    \A i \in 1..Len(features) :
      LET s == features[i]["codigoestacion"]
          W == {d \in filtrado[s] :
                  d >= MaxOf(AllDates(filtrado)) - ventana_dias}
          acc(k) == features[i][nombre_columna(ventanas[k])]
      IN /\ (\A d \in filtrado[s] : valor[s][d] >= 0) =>
              \A k \in 1..(Len(ventanas) - 1) : acc(k) <= acc(k + 1)
         /\ \A k, l \in 1..Len(ventanas) :
              (ventanas[k] >= Cardinality(W) - 1
                 /\ ventanas[l] >= Cardinality(W) - 1) => acc(k) = acc(l)

\* C37 witness: a sensor with four days in the window whose accumulations
\* grow up to the 3-day horizon and stay there.
C37_Witness ==
  /\ ModeloGenerado
  /\ Cardinality(filtrado["A001"]) = 4
  /\ \A d \in filtrado["A001"] : valor["A001"][d] >= 0
  /\ \E i \in 1..Len(features) :
       /\ features[i]["codigoestacion"] = "A001"
       /\ features[i]["1-rain ant.rain"] < features[i]["2-rain ant.rain"]
       /\ features[i]["2-rain ant.rain"] < features[i]["3-rain ant.rain"]
       /\ features[i]["3-rain ant.rain"] = features[i]["15-rain ant.rain"]
       /\ features[i]["15-rain ant.rain"] = features[i]["30-rain ant.rain"]

\* ------------------------------ corregir_inconsistencias_localidades
Municipios == <<"Bello", "Itagui">>
Departamentos == <<"Antioquia", "Caldas">>

\* The place of x in the sequence seq.
Posicion(seq, x) == CHOOSE i \in 1..Len(seq) : seq[i] = x

\* lines 407-412: a row of df_lluvia_diaria
FilaDiaria ==
  [codigoestacion : Sensors, fecha : {1},
   municipio : {Municipios[i] : i \in 1..Len(Municipios)},
   departamento : {Departamentos[i] : i \in 1..Len(Departamentos)},
   lluvia_diaria : 0..MaxVal]

\* line 409: the place of a row in the order of the groupby keys
RangoFila(f) ==
  (Posicion(SensorSeq, f.codigoestacion) * Len(Municipios)
     + Posicion(Municipios, f.municipio)) * Len(Departamentos)
  + Posicion(Departamentos, f.departamento)

\* lines 407-412: the groupby returns one row for each key, in key order
TablasDiarias ==
  {t \in UNION {[1..n -> FilaDiaria] : n \in 0..MaxFilas} :
     \A i, j \in 1..Len(t) : i < j => RangoFila(t[i]) < RangoFila(t[j])}

\* lines 569-573: set_index('codigo')[...].to_dict() of the registry
Registros ==
  UNION {[C -> [mpio_def : {Municipios[i] : i \in 1..Len(Municipios)},
                depto_def : {Departamentos[i] : i \in 1..Len(Departamentos)}]] :
           C \in SUBSET Sensors}

\* lines 544-548: the sensors with more than one municipio or departamento
codigos_inconsistentes(df) ==
  {s \in Sensors :
     LET filas == {i \in 1..Len(df) : df[i].codigoestacion = s}
     IN \/ Cardinality({df[i].municipio : i \in filas}) > 1
        \/ Cardinality({df[i].departamento : i \in filas}) > 1}

\* lines 576-580: Series.map(dict) gives NaN for a key the dictionary lacks
map(dict, campo, s) ==
  IF s \in DOMAIN dict THEN dict[s][campo] ELSE Nulo

\* lines 561-589
corregir_inconsistencias_localidades(df, codigos, estado, dict) ==
  IF estado = "ok"
  THEN [i \in 1..Len(df) |->
          IF df[i].codigoestacion \in codigos
          THEN [df[i] EXCEPT
                  !.municipio =
                     map(dict, "mpio_def", df[i].codigoestacion),
                  !.departamento =
                     map(dict, "depto_def", df[i].codigoestacion)]
          ELSE df[i]]
  ELSE df

InitLocal ==
  /\ loc_pc = "input"
  /\ df_entrada \in TablasDiarias
  /\ df_salida = <<>>
  /\ registro_estado \in {"ok", "missing", "unreadable"}
  /\ IF registro_estado = "ok" THEN registro \in Registros ELSE registro = <<>>
  /\ AgrupacionIdle
  /\ FiltroIdle
  /\ HistIdle
  /\ OrqIdle
  /\ PipelineIdle
  /\ FetchIdle

\* lines 544-555: the third step of control_calidad_datos
CorregirInconsistencias ==
  /\ loc_pc = "input"
  /\ df_salida' =
       LET codigos == codigos_inconsistentes(df_entrada)
       IN IF codigos # {}
          THEN corregir_inconsistencias_localidades(
                 df_entrada, codigos, registro_estado, registro)
          ELSE df_entrada
  /\ loc_pc' = "done"
  /\ UNCHANGED <<df_entrada, registro_estado, registro>>
  /\ UNCHANGED <<fvars, pvars, gvars, xvars, hvars, ovars>>

NextLocal == CorregirInconsistencias

SpecLocal == InitLocal /\ [][NextLocal]_vars

\* C21: the reconciliation returns the rows it received, sensor, date and
\* lluvia_diaria of each unchanged; with the registry available every row of an
\* inconsistent sensor ends with the municipio and the departamento the
\* registry holds for that sensor; the rows of a consistent sensor are
\* unchanged; nothing changes when the registry is missing or unreadable.
C21_LocalRepair ==
  loc_pc = "done" =>
    /\ Len(df_salida) = Len(df_entrada)
    /\ \A i \in 1..Len(df_entrada) :
         /\ df_salida[i].codigoestacion = df_entrada[i].codigoestacion
         /\ df_salida[i].fecha = df_entrada[i].fecha
         /\ df_salida[i].lluvia_diaria = df_entrada[i].lluvia_diaria
         /\ df_entrada[i].codigoestacion \notin codigos_inconsistentes(df_entrada)
              => df_salida[i] = df_entrada[i]
         /\ (/\ registro_estado = "ok"
             /\ df_entrada[i].codigoestacion
                  \in codigos_inconsistentes(df_entrada))
              => LET s == df_entrada[i].codigoestacion
                 IN /\ s \in DOMAIN registro
                    /\ df_salida[i].municipio = registro[s].mpio_def
                    /\ df_salida[i].departamento = registro[s].depto_def
    /\ registro_estado # "ok" => df_salida = df_entrada

\* The part of C21 the code keeps: rows, sensors, dates and totals are the
\* ones received, consistent sensors are untouched, an unavailable registry
\* changes nothing, and a sensor the registry holds gets the registry's values.
LocalRepairOfKnownSensors ==
  loc_pc = "done" =>
    /\ Len(df_salida) = Len(df_entrada)
    /\ \A i \in 1..Len(df_entrada) :
         /\ df_salida[i].codigoestacion = df_entrada[i].codigoestacion
         /\ df_salida[i].fecha = df_entrada[i].fecha
         /\ df_salida[i].lluvia_diaria = df_entrada[i].lluvia_diaria
         /\ df_entrada[i].codigoestacion \notin codigos_inconsistentes(df_entrada)
              => df_salida[i] = df_entrada[i]
         /\ (/\ registro_estado = "ok"
             /\ df_entrada[i].codigoestacion
                  \in codigos_inconsistentes(df_entrada)
             /\ df_entrada[i].codigoestacion \in DOMAIN registro)
              => LET s == df_entrada[i].codigoestacion
                 IN /\ df_salida[i].municipio = registro[s].mpio_def
                    /\ df_salida[i].departamento = registro[s].depto_def
    /\ registro_estado # "ok" => df_salida = df_entrada

\* ------------------------------------------------ filtrar_region_andina
\* The latitude and longitude texts of a record: a point of the region, a
\* point outside it, and a text that is no number.
Latitudes == {"6.2", "40.0", "s/d"}
Longitudes == {"-75.5", "s/d"}

\* lines 336-338: the columns of the frame built from the records
ColumnasNrt == <<"fechaobservacion", "latitud", "longitud">>

\* lines 212-213: pd.to_numeric(..., errors='coerce')
to_numeric(x) == IF x \in {"6.2", "40.0", "-75.5"} THEN x ELSE Nulo

\* lines 212-213 on every row of the frame
ConvertirCoordenadas(df) ==
  [i \in 1..Len(df) |->
     [df[i] EXCEPT !.latitud = to_numeric(@), !.longitud = to_numeric(@)]]

\* line 216: dropna(subset=['latitud', 'longitud'])
CoordenadasValidas(r) == r.latitud # Nulo /\ r.longitud # Nulo

\* line 227: Point(xy) for xy in zip(longitud, latitud)
Point(r) == <<r.longitud, r.latitud>>

\* line 233: within(region_andina.geometry.union_all())
within(r) == r.geometry = <<"-75.5", "6.2">>

\* line 230: the chunk with its geometry column, set or replaced
ConGeometria(r) ==
  [c \in DOMAIN r \cup {"geometry"} |->
     IF c = "geometry" THEN Point(r) ELSE r[c]]

\* A region load that gives an empty region where the file cannot be read.
cargar_region_vacia(ok) == "region"

\* lines 84-92: the region, or the exception of read_file raised again
cargar_region(ok) == IF ok THEN "region" ELSE "raise"

\* A chunk loop that starts each chunk one row too far.
SiguienteChunk_salta(i, size) == i + size + 1

\* line 222: range(0, len(df_validas), chunk_size)
SiguienteChunk(i, size) == i + size

RECURSIVE FiltrarChunks(_, _, _)
\* lines 222-241: resultados_filtrados after the chunks from row i on
FiltrarChunks(validas, i, size) ==
  IF i >= Len(validas) THEN <<>>
  ELSE LET chunk == SubSeq(validas, i + 1, Min(i + size, Len(validas)))
           gdf_chunk == [k \in 1..Len(chunk) |-> ConGeometria(chunk[k])]
           chunk_filtrado == SelectSeq(gdf_chunk, within)
       IN (IF chunk_filtrado # <<>> THEN <<chunk_filtrado>> ELSE <<>>)
            \o FiltrarChunks(validas, SiguienteChunk(i, size), size)

RECURSIVE concat(_)
\* line 245: pd.concat(resultados_filtrados, ignore_index=True)
concat(partes) ==
  IF partes = <<>> THEN <<>> ELSE Head(partes) \o concat(Tail(partes))

\* line 230: the columns of a chunk that has a geometry
ColumnasConGeometria(cols) ==
  IF \E k \in 1..Len(cols) : cols[k] = "geometry"
  THEN cols ELSE Append(cols, "geometry")

\* lines 200-252
filtrar_region_andina(df, cols, ok, size) ==
  IF cargar_region(ok) = "raise"
  THEN [estado |-> "raised", filas |-> <<>>, columnas |-> <<>>]
  ELSE LET df_validas == SelectSeq(ConvertirCoordenadas(df), CoordenadasValidas)
           resultados_filtrados == FiltrarChunks(df_validas, 0, size)
       IN IF resultados_filtrados # <<>>
          THEN [estado |-> "ok",
                filas |-> concat(resultados_filtrados),
                columnas |-> ColumnasConGeometria(cols)]
          ELSE [estado |-> "ok",
                filas |-> <<>>,
                columnas |-> Append(cols, "geometry")]

\* lines 128-143 and 336-338: the records arrive ordered by fechaobservacion
FramesNrt ==
  {t \in UNION {[1..n -> [fechaobservacion : 1..MaxFilas,
                          latitud : Latitudes,
                          longitud : Longitudes]] : n \in 0..MaxFilas} :
     \A i \in 1..Len(t) : t[i].fechaobservacion = i}

InitFiltro ==
  /\ filtro_pc = "input"
  /\ recibido \in FramesNrt
  /\ df_nrt = recibido
  /\ region_cargable \in BOOLEAN
  /\ chunk_size \in 1..MaxChunk
  /\ chunk_repetido = 1
  /\ gdf_nrt_andina = SinResultado
  /\ gdf_repetido = SinResultado
  /\ AgrupacionIdle
  /\ LocalIdle
  /\ HistIdle
  /\ OrqIdle
  /\ PipelineIdle
  /\ FetchIdle

\* lines 200-252: the call of line 372
Filtrar ==
  /\ filtro_pc = "input"
  /\ gdf_nrt_andina' =
       filtrar_region_andina(df_nrt, ColumnasNrt, region_cargable, chunk_size)
  /\ df_nrt' = IF cargar_region(region_cargable) = "raise"
               THEN df_nrt ELSE ConvertirCoordenadas(df_nrt)
  /\ filtro_pc' = "done"
  /\ UNCHANGED <<recibido, region_cargable, chunk_size, chunk_repetido,
                 gdf_repetido>>
  /\ UNCHANGED <<fvars, pvars, gvars, lvars, hvars, ovars>>

\* lines 200-252 applied to the frame a first call returned
FiltrarSalida ==
  /\ filtro_pc = "done"
  /\ gdf_nrt_andina.estado = "ok"
  /\ \E size \in 1..MaxChunk :
       /\ gdf_repetido' =
            filtrar_region_andina(gdf_nrt_andina.filas,
                                  gdf_nrt_andina.columnas,
                                  region_cargable, size)
       /\ chunk_repetido' = size
  /\ filtro_pc' = "again"
  /\ UNCHANGED <<recibido, df_nrt, region_cargable, chunk_size,
                 gdf_nrt_andina>>
  /\ UNCHANGED <<fvars, pvars, gvars, lvars, hvars, ovars>>

NextFiltro ==
  \/ Filtrar
  \/ FiltrarSalida

SpecFiltro == InitFiltro /\ [][NextFiltro]_vars

\* The rows that arrived with a number in latitud and in longitud and a point
\* of the region.
DentroDeRegion(r) ==
  /\ r.latitud \in {"6.2", "40.0", "-75.5"}
  /\ r.longitud \in {"6.2", "40.0", "-75.5"}
  /\ <<r.longitud, r.latitud>> = <<"-75.5", "6.2">>

\* The columns of the records in the rows of a frame.
SinGeometria(filas) ==
  [k \in 1..Len(filas) |->
     [fechaobservacion |-> filas[k].fechaobservacion,
      latitud |-> filas[k].latitud,
      longitud |-> filas[k].longitud]]

\* C22: whatever the chunk size, a call that returns gives exactly the rows
\* that arrived with numeric latitude and longitude and lie in the region, in
\* their order of arrival, and the call on that result returns the same rows
\* whatever its chunk size.
C22_ChunkingIndependent ==
  /\ (filtro_pc \in {"done", "again"} /\ gdf_nrt_andina.estado = "ok") =>
        SinGeometria(gdf_nrt_andina.filas) = SelectSeq(recibido, DentroDeRegion)
  /\ (filtro_pc = "again" /\ gdf_repetido.estado = "ok") =>
        gdf_repetido.filas = gdf_nrt_andina.filas

\* C22 witness: chunks of one row, two of them with a row of the region, a row
\* dropped, and the second call done with chunks of two rows.
C22_Witness ==
  /\ filtro_pc = "again"
  /\ chunk_size = 1
  /\ chunk_repetido = 2
  /\ gdf_repetido.estado = "ok"
  /\ Len(gdf_nrt_andina.filas) = 2
  /\ Len(recibido) = 3
  /\ recibido[2].latitud = "s/d"

SinCoordenadasValidas ==
  /\ filtro_pc = "done"
  /\ region_cargable
  /\ Len(recibido) = MaxFilas
  /\ \A i \in 1..Len(recibido) : recibido[i].latitud = "s/d"
  /\ gdf_nrt_andina.estado = "ok"
  /\ gdf_nrt_andina.filas = <<>>

\* ------------------------------------------------ properties of SpecFetch
\* Occurrences of record t in a sequence of records.
Count(seq, t) == Cardinality({i \in 1..Len(seq) : seq[i] = t})

\* The block last entered is in the failed-block list.
Recorded(b) == \E i \in 1..Len(failed_blocks) : failed_blocks[i] = b

\* C5: for every range start < end, the days_requested of the coverage
\* report (total_days) equals the number of 1-day blocks the scheduler
\* iterated over, whole-day ranges included.
C5_DaysRequestedIsBlockCount ==
  (pc = "done" /\ fecha_inicio < end_time) => total_days = n_blocks

\* C6: after all blocks are attempted the coverage is the percentage of
\* requested days whose block was retrieved: 100 exactly when no block
\* failed and 0 exactly when every block failed.
C6_CoverageExtremes ==
  (pc = "done" /\ fecha_inicio < end_time) =>
     /\ failed_days = Len(failed_blocks) * 1
     /\ (100 * (total_days - failed_days) = 100 * total_days
           <=> Len(failed_blocks) = 0)
     /\ (100 * (total_days - failed_days) = 0
           <=> Len(failed_blocks) = n_blocks)

\* C7: a block is attempted at most 4 times, and it is in the failed-block
\* list only after 4 attempts that each ended with zero records; a block
\* one of whose attempts collected a record is never in the list.
C7_FailedOnlyAfterFourEmptyAttempts ==
  /\ attempts <= 4
  /\ Recorded(blk) => (attempts = 4 /\ zero_attempts = 4 /\ ~got_any)
  /\ got_any => ~Recorded(blk)

\* C7 witness: a block was lost after its fourth attempt, one of whose
\* attempts was ended by page errors.
C7_Witness == Recorded(blk) /\ attempts = 4 /\ batch_errors > 0

\* C8: a block succeeds as soon as one attempt ends with at least one
\* record, page errors or not, and is then attempted no more; the records
\* of that attempt are in the run's record set up to the end of the run;
\* with zero page errors an attempt marks the block succeeded iff it
\* collected more than 0 records.
C8_PartialDataAccepted ==
  /\ (pc = "attempt" /\ attempts > 0) =>
        /\ Len(block_data) > 0 => block_success
        /\ batch_errors = 0 => (block_success <=> Len(block_data) > 0)
  /\ block_success => pc \in {"attempt", "blocks", "done"}
  /\ got_any => block_success
  /\ \A t \in remote : Count(collected, t) <= Count(all_data, t)

\* C8 witness: the run ended after a block was accepted from an attempt in
\* which a page raised.
C8_Witness ==
  pc = "done" /\ block_success /\ batch_errors > 0 /\ Len(block_data) > 0

\* C9: blocks are half-open, so an observation stamped on a block boundary
\* is retrieved by one block only and never appears twice in the record set.
C9_NoObservationTwice ==
  pc = "done" => \A t \in remote : Count(all_data, t) <= 1

\* C10: after a non-transient page error no further page request and no
\* further attempt is made for that block.
C10_NoRequestAfterFatal == fatal_seen => pc # "page"

\* C26: after a timeout or connection error of a page request, the next page
\* request of the attempt uses the offset of the request that failed.
C26_RetrySamePage ==
  (pc = "page" /\ req_result = "transient") => offset = req_offset

\* C27: an attempt has at most 5 page errors and issues no page request once
\* it has 5; a timeout or connection error that is not the fifth error leaves
\* the attempt running; an attempt that ended on its fifth error succeeded
\* exactly when it collected a record, and counts as one more failed attempt
\* of the block when it collected none.
C27_FiveErrorsEndTheAttempt ==
  /\ batch_errors <= MaxBatchErrors
  /\ pc = "page" => batch_errors < MaxBatchErrors
  /\ (req_result = "transient" /\ batch_errors < MaxBatchErrors) => pc = "page"
  /\ (pc = "attempt" /\ attempts > 0 /\ batch_errors = MaxBatchErrors) =>
        /\ block_success <=> Len(block_data) > 0
        /\ Len(block_data) = 0 =>
              (retry_count = zero_attempts /\ retry_count = attempts)

\* C27 witness: an attempt ended on its fifth timeout without a record and
\* the block goes to its second attempt.
C27_Witness ==
  /\ pc = "attempt"
  /\ batch_errors = MaxBatchErrors
  /\ req_result = "transient"
  /\ Len(block_data) = 0
  /\ retry_count = 1
  /\ MayAttempt(retry_count, block_success)

\* C28 as stated: after a page that returned fewer records than the page
\* size no further page request is issued in the attempt.
C28_StopAtShortPage ==
  req_result = "short" => pc # "page"

\* C28 amended: after every page that returned a record, full or short, the
\* attempt requests the page at the next offset; of the requests that return,
\* only one that returns no record ends the pagination.
C28_StopAtEmptyPage ==
  /\ req_result \in {"page", "short"} =>
        (pc = "page" /\ offset = req_offset + PageLimit)
  /\ pc = "eval" => req_result \in {"empty", "transient", "fatal"}
  /\ req_result = "empty" => offset = req_offset

\* C28 witness: the attempt ended on an empty page requested after a short one.
C28_Witness ==
  /\ pc = "eval"
  /\ req_result = "empty"
  /\ batch_errors = 0
  /\ Len(block_data) % PageLimit # 0
  /\ req_offset = PageLimit * ((Len(block_data) \div PageLimit) + 1)

\* C29: no page error leaves obtener_datos_lluvia_masivos as an exception;
\* the function is always inside its loops or has returned the records and a
\* coverage that is defined.
C29_NoExceptionEscapes ==
  /\ pc \in {"blocks", "attempt", "page", "eval", "done"}
  /\ pc = "done" =>
        /\ total_days >= 1
        /\ failed_days = FailedDays(Len(failed_blocks))

\* C29 witness: the function returned after a block was lost to errors that
\* are not connectivity errors.
C29_Witness ==
  /\ pc = "done"
  /\ fatal_seen
  /\ req_result = "fatal"
  /\ Len(failed_blocks) >= 1

\* C30: the retrieval reaches its coverage report, no block has more than 4
\* attempts and no attempt more than 5 page errors.
C30_RetrievalTerminates ==
  /\ <>(pc = "done")
  /\ [](attempts <= max_retries + 1 /\ batch_errors <= MaxBatchErrors)

\* C30 witness: the report was reached after a block took all 4 attempts.
C30_Witness ==
  /\ pc = "done"
  /\ attempts = max_retries + 1
  /\ n_blocks >= 2

\* The block in hand is decided: it succeeded or its attempts are used up.
BloqueDecidido == block_success \/ retry_count > max_retries

\* C31: the blocks are contiguous and taken in order: block k starts k-1 days
\* after the start of the range, which is where block k-1 ended, it is one day
\* long or ends at the end of the range, the blocks end when the end of the
\* range is reached, and a block is entered only when the block before it is
\* decided.
C31_ContiguousBlocks ==
  /\ (pc = "blocks" /\ n_blocks = 0) => current_start = fecha_inicio
  /\ pc \in {"attempt", "page", "eval"} =>
        /\ blk = <<current_start, current_end>>
        /\ current_start = fecha_inicio + (n_blocks - 1) * DayTicks
        /\ current_start < current_end
        /\ current_end <= end_time
        /\ current_end - current_start = DayTicks \/ current_end = end_time
        /\ current_end - current_start <= DayTicks
  /\ (pc = "blocks" /\ n_blocks >= 1) =>
        /\ BloqueDecidido
        /\ current_start = blk[2]
        /\ blk[1] = fecha_inicio + (n_blocks - 1) * DayTicks
  /\ pc = "page" => ~BloqueDecidido
  /\ pc = "done" => current_start = end_time

\* C31 witness: a page of the third block, shorter than a day, is requested
\* after an earlier block was lost.
C31_Witness ==
  /\ pc = "page"
  /\ n_blocks = 3
  /\ current_end = end_time
  /\ current_end - current_start < DayTicks
  /\ Len(failed_blocks) >= 1

\* C36: in the report the days requested are at least 1 and the days of the
\* failed blocks lie between 0 and the days requested, so the division of
\* line 184 is defined and the coverage lies between 0 and 100.
C36_CoverageInRange ==
  pc = "done" =>
    /\ total_days >= 1
    /\ failed_days >= 0
    /\ failed_days <= total_days
    /\ Len(failed_blocks) <= n_blocks
    /\ CovGE(total_days, failed_days, 0)
    /\ ~CovGE(total_days, failed_days, 101)

\* C36 witness: a report over a range of whole days in which every block
\* was lost.
C36_Witness ==
  /\ pc = "done"
  /\ end_time - fecha_inicio = 2 * DayTicks
  /\ n_blocks = 2
  /\ Len(failed_blocks) = n_blocks

\* ------------------------- the retry loop of procesar_datos_completos
\* lines 273-334 around the call of line 280, the retrieval taken page by page
InitRun == InitFetchLive /\ Cardinality(remote) <= MaxRemotos

\* lines 283, 305-307, 273-280: the coverage is insufficient and an attempt is
\* left; pause, then call obtener_datos_lluvia_masivos again
ReintentoCompleto ==
  /\ pc = "done"
  /\ gate = "pending"
  /\ GateDecision(attempt, total_days, failed_days, all_data # <<>>) = "retry"
  /\ attempt' = attempt + 1
  /\ pausas_completas' = Append(pausas_completas, PausaCompleta(attempt + 1))
  /\ previas' = Append(previas, <<total_days, failed_days, all_data # <<>> >>)
  /\ all_data' = ReinicioDatos(all_data)
  /\ failed_blocks' = <<>>
  /\ current_start' = fecha_inicio
  /\ current_end' = 0
  /\ block_data' = <<>>
  /\ retry_count' = 0
  /\ block_success' = FALSE
  /\ offset' = 0
  /\ batch_errors' = 0
  /\ total_days' = 0
  /\ failed_days' = 0
  /\ n_blocks' = 0
  /\ attempts' = 0
  /\ zero_attempts' = 0
  /\ got_any' = FALSE
  /\ fatal_seen' = FALSE
  /\ blk' = <<0, 0>>
  /\ collected' = <<>>
  /\ req_offset' = 0
  /\ req_result' = "none"
  /\ pc' = "blocks"
  /\ UNCHANGED <<fecha_inicio, end_time, remote, pausa_bloque>>
  /\ UNCHANGED <<stage, estaciones_exists, region_exists, region_readable,
                 run_block, run_failed, run_has_data, cov_total, cov_failed,
                 gate, files, written_rows, andina, daily, filtrado, pivot,
                 exit_code, abort_at, completo, attempt_lost, valor,
                 features>>
  /\ UNCHANGED <<gvars, lvars, xvars, ovars>>

\* lines 283-334: the coverage is accepted, or the last attempt is over
DecidirCobertura ==
  /\ pc = "done"
  /\ gate = "pending"
  /\ GateDecision(attempt, total_days, failed_days, all_data # <<>>) # "retry"
  /\ gate' = GateDecision(attempt, total_days, failed_days, all_data # <<>>)
  /\ UNCHANGED <<stage, estaciones_exists, region_exists, region_readable,
                 attempt, run_block, run_failed, run_has_data, cov_total,
                 cov_failed, files, written_rows, andina, daily, filtrado,
                 pivot, exit_code, abort_at, completo, attempt_lost, valor,
                 features>>
  /\ UNCHANGED <<fvars, avars>>

NextRun ==
  \/ NextFetch
  \/ ReintentoCompleto
  \/ DecidirCobertura

SpecRun == InitRun /\ [][NextRun]_vars

\* C32: the pause after an attempt is 5 seconds or none, whatever the number
\* of the attempt; it is taken exactly when the attempt failed and another
\* attempt of the same block follows, so every retry of a block follows a
\* pause and there is none after a success or after the last attempt; there
\* is one pause of 10 seconds for every whole-run retry and none before the
\* first whole-run attempt.
C32_FixedPauses ==
  /\ pausa_bloque \in {0, 5}
  /\ (pc = "attempt" /\ attempts >= 1) =>
        (pausa_bloque = 5 <=> (~block_success /\ retry_count <= max_retries))
  /\ (pc \in {"page", "eval"} /\ attempts >= 2) => pausa_bloque = 5
  /\ Len(pausas_completas) = attempt
  /\ \A i \in 1..Len(pausas_completas) : pausas_completas[i] = 10

\* C32 witness: the third attempt of a block in the first whole-run retry.
C32_Witness ==
  /\ pc = "page"
  /\ attempt = 1
  /\ attempts = 3
  /\ pausa_bloque = 5
  /\ pausas_completas = <<10>>

RECURSIVE SumaConsultas(_, _)
\* The records the queries of the blocks of [s, e) select, added up.
SumaConsultas(s, e) ==
  IF s < e
  THEN Cardinality(BlockQuery(s, BlockEnd(s, e)))
         + SumaConsultas(BlockEnd(s, e), e)
  ELSE 0

\* C35: the gate decides on the coverage and the records of the retrieval
\* that returned last: the failed days are those of its own failed blocks,
\* its records are no more than its own blocks select (nothing of an earlier
\* retrieval is kept), and a last retrieval under 50% aborts the run whatever
\* the earlier retrievals reached.
C35_LastAttemptOnly ==
  /\ pc = "done" =>
        /\ failed_days = Len(failed_blocks)
        /\ Len(failed_blocks) <= n_blocks
        /\ Len(all_data) <= SumaConsultas(fecha_inicio, end_time)
  /\ gate = "normal" =>
        CovGE(total_days, failed_days, 70) /\ all_data # <<>>
  /\ gate = "degraded" =>
        /\ attempt = max_complete_retries
        /\ ~CovGE(total_days, failed_days, 70)
        /\ CovGE(total_days, failed_days, 50)
        /\ all_data # <<>>
  /\ (/\ gate # "pending"
      /\ attempt = max_complete_retries
      /\ ~CovGE(total_days, failed_days, 50)) => gate = "abort"
  /\ (gate # "pending" /\ all_data = <<>>) => gate = "abort"

\* C35 witness: the run aborts on a third retrieval under 50% after an
\* earlier retrieval with records and a coverage between 50% and 70%.
C35_Witness ==
  /\ gate = "abort"
  /\ attempt = max_complete_retries
  /\ ~CovGE(total_days, failed_days, 50)
  /\ \E i \in 1..Len(previas) :
        /\ CovGE(previas[i][1], previas[i][2], 50)
        /\ ~CovGE(previas[i][1], previas[i][2], 70)
        /\ previas[i][3]


\* ---------------------------------------------------------------------
\* SATOrchestrator.ejecutar_pipeline_completo (orchestrator.py lines
\* 225-310) on its own: the three containers, run one after another.
\* ---------------------------------------------------------------------

\* container.status of a container that exists.
EstadosContenedor == {"created", "running", "exited", "dead"}

\* Position of a service in secuencia.
PosServicio(s) == CHOOSE k \in 1..Len(secuencia) : secuencia[k] = s

\* orchestrator.py lines 56-75: the services whose container is listed;
\* none when listing the containers raises.
verificar_servicios_disponibles(docker_ok) ==
  IF docker_ok THEN contenedores ELSE {}

\* orchestrator.py line 244: servicios_faltantes
servicios_faltantes(disponibles) ==
  SelectSeq(secuencia, LAMBDA s : s \notin disponibles)

\* orchestrator.py lines 177-223: the output files of the service exist and
\* looking for them did not raise.
verificar_flujo_datos(s, fs_ok) == fs_ok /\ salida[s]

InterrumpeSecuencia_nunca(ok) == FALSE

\* orchestrator.py lines 278-282: the break after a failed output check.
InterrumpeSecuencia(ok) == ~ok

\* orchestrator.py lines 262-269: resultado_servicio
resultado_servicio(s, exito) == [servicio |-> s, exitoso |-> exito]

\* orchestrator.py lines 287-290: the value left in resultados['exitoso'].
PipelineExitoso(ejecutados) ==
  /\ Len(ejecutados) = Len(secuencia)
  /\ \A k \in 1..Len(ejecutados) : ejecutados[k].exitoso

InitOrq ==
  /\ orq_pc = "check"
  /\ contenedores \in SUBSET Servicios
  /\ status \in [Servicios -> EstadosContenedor \cup {"absent"}]
  /\ \A s \in Servicios : status[s] = "absent" <=> s \notin contenedores
  /\ exit_codes \in [Servicios -> 0..1]
  /\ \A s \in Servicios : status[s] # "exited" => exit_codes[s] = 0
  /\ salida \in [Servicios -> BOOLEAN]
  /\ paso = 0
  /\ servicios_ejecutados = <<>>
  /\ errores = <<>>
  /\ exitoso = FALSE
  /\ iniciados = <<>>
  /\ verificados = {}
  /\ AgrupacionIdle
  /\ LocalIdle
  /\ FiltroIdle
  /\ HistIdle
  /\ PipelineIdle
  /\ FetchIdle

\* orchestrator.py lines 242-250: the availability check; a missing service
\* ends the run before any service is run.
VerificarServicios ==
  /\ orq_pc = "check"
  /\ \E docker_ok \in BOOLEAN :
       LET faltantes ==
             servicios_faltantes(verificar_servicios_disponibles(docker_ok))
       IN IF faltantes # <<>>
            THEN /\ errores' = Append(errores, <<"no_disponibles", faltantes>>)
                 /\ orq_pc' = "done"
                 /\ paso' = paso
            ELSE /\ errores' = errores
                 /\ orq_pc' = "run"
                 /\ paso' = 1
  /\ UNCHANGED <<contenedores, status, exit_codes, salida,
                 servicios_ejecutados, exitoso, iniciados, verificados>>
  /\ UNCHANGED <<fvars, pvars, gvars, lvars, xvars, hvars>>

\* orchestrator.py lines 119-136 (and 262-275 when it fails): the first
\* half of ejecutar_servicio. A container that is running is left as it is,
\* any other is started; a Docker error makes the service fail.
IniciarServicio ==
  /\ orq_pc = "run"
  /\ LET s == secuencia[paso]
     IN \E docker_ok \in BOOLEAN :
          IF ~docker_ok
            THEN /\ servicios_ejecutados' =
                      Append(servicios_ejecutados, resultado_servicio(s, FALSE))
                 /\ errores' = Append(errores, <<"fallo", s>>)
                 /\ orq_pc' = "final"
                 /\ UNCHANGED <<status, iniciados>>
            ELSE /\ orq_pc' = "wait"
                 /\ IF status[s] = "running"
                      THEN UNCHANGED <<status, iniciados>>
                      ELSE /\ status' = [status EXCEPT ![s] = "running"]
                           /\ iniciados' = Append(iniciados, s)
                 /\ UNCHANGED <<servicios_ejecutados, errores>>
  /\ UNCHANGED <<contenedores, exit_codes, salida, paso, exitoso, verificados>>
  /\ UNCHANGED <<fvars, pvars, gvars, lvars, xvars, hvars>>

\* The environment: a running container ends, with an exit code, or is left
\* in a state that is neither running nor exited; its output files are there
\* or not.
ContenedorTermina ==
  /\ orq_pc \in {"check", "run", "wait", "verify", "final"}
  /\ \E s \in Servicios :
       /\ status[s] = "running"
       /\ \E fin \in {"exited", "dead"}, code \in 0..1, out \in BOOLEAN :
            /\ fin = "dead" => code = 0
            /\ status' = [status EXCEPT ![s] = fin]
            /\ exit_codes' = [exit_codes EXCEPT ![s] = code]
            /\ salida' = [salida EXCEPT ![s] = out]
  /\ UNCHANGED <<orq_pc, contenedores, paso, servicios_ejecutados, errores,
                 exitoso, iniciados, verificados>>
  /\ UNCHANGED <<fvars, pvars, gvars, lvars, xvars, hvars>>

\* orchestrator.py lines 142-168 and 262-275: the wait loop, once the
\* container is seen not running or its state cannot be read. Only an exit
\* with code 0 is a success.
ObservarServicio ==
  /\ orq_pc = "wait"
  /\ LET s == secuencia[paso]
     IN \E docker_ok \in BOOLEAN :
          /\ docker_ok => status[s] # "running"
          /\ LET exito == /\ docker_ok
                          /\ status[s] = "exited"
                          /\ exit_codes[s] = 0
             IN /\ servicios_ejecutados' =
                     Append(servicios_ejecutados, resultado_servicio(s, exito))
                /\ IF exito
                     THEN /\ errores' = errores
                          /\ orq_pc' = "verify"
                     ELSE /\ errores' = Append(errores, <<"fallo", s>>)
                          /\ orq_pc' = "final"
  /\ UNCHANGED <<contenedores, status, exit_codes, salida, paso, exitoso,
                 iniciados, verificados>>
  /\ UNCHANGED <<fvars, pvars, gvars, lvars, xvars, hvars>>

\* orchestrator.py lines 277-284: the output check of the service that has
\* just succeeded; after it the loop goes on with the next service or ends.
VerificarFlujo ==
  /\ orq_pc = "verify"
  /\ LET s == secuencia[paso]
     IN \E fs_ok \in BOOLEAN :
          LET ok == verificar_flujo_datos(s, fs_ok)
          IN /\ errores' = IF ok THEN errores
                                 ELSE Append(errores, <<"verificacion", s>>)
             /\ verificados' = IF ok THEN verificados \cup {s}
                                     ELSE verificados
             /\ IF ~InterrumpeSecuencia(ok) /\ paso < Len(secuencia)
                  THEN /\ paso' = paso + 1
                       /\ orq_pc' = "run"
                  ELSE /\ paso' = paso
                       /\ orq_pc' = "final"
  /\ UNCHANGED <<contenedores, status, exit_codes, salida,
                 servicios_ejecutados, exitoso, iniciados>>
  /\ UNCHANGED <<fvars, pvars, gvars, lvars, xvars, hvars>>

\* orchestrator.py lines 286-295: the verdict after the loop.
Finalizar ==
  /\ orq_pc = "final"
  /\ exitoso' = PipelineExitoso(servicios_ejecutados)
  /\ orq_pc' = "done"
  /\ UNCHANGED <<contenedores, status, exit_codes, salida, paso,
                 servicios_ejecutados, errores, iniciados, verificados>>
  /\ UNCHANGED <<fvars, pvars, gvars, lvars, xvars, hvars>>

NextOrq ==
  \/ VerificarServicios
  \/ IniciarServicio
  \/ ContenedorTermina
  \/ ObservarServicio
  \/ VerificarFlujo
  \/ Finalizar

SpecOrq == InitOrq /\ [][NextOrq]_vars

\* C38: the result of the full pipeline is marked exitoso only if all three
\* services exited with code 0 and each of them passed its output check, so
\* that exitoso implies an empty list of errors.
C38_ExitosoWithoutErrors ==
  exitoso =>
    /\ errores = <<>>
    /\ verificados = Servicios
    /\ PipelineExitoso(servicios_ejecutados)

\* The three services exited with code 0, the output check of the last one
\* failed, and the verdict was given.
UltimaVerificacionFallida ==
  /\ orq_pc = "done"
  /\ PipelineExitoso(servicios_ejecutados)
  /\ verificados = Servicios \ {secuencia[Len(secuencia)]}
  /\ errores = <<<<"verificacion", secuencia[Len(secuencia)]>>>>

\* What has to be true of the run when the orchestrator starts service s.
PuedeIniciar(s) ==
  /\ contenedores = Servicios
  /\ errores = <<>>
  /\ s = secuencia[Len(servicios_ejecutados) + 1]
  /\ \A k \in 1..(PosServicio(s) - 1) :
       /\ servicios_ejecutados[k].servicio = secuencia[k]
       /\ servicios_ejecutados[k].exitoso
       /\ secuencia[k] \in verificados
       /\ status[secuencia[k]] = "exited"
       /\ exit_codes[secuencia[k]] = 0

\* C39: the services are run in the order of secuencia, one at a time; a
\* service is started only after every earlier one was seen exited with code
\* 0 and passed its output check, none is started when a container is
\* missing, and none is started after the first failure.
C39_StagesInOrder ==
  /\ [](/\ \A k \in 1..Len(servicios_ejecutados) :
              servicios_ejecutados[k].servicio = secuencia[k]
        /\ \A i, j \in 1..Len(iniciados) :
              i < j => PosServicio(iniciados[i]) < PosServicio(iniciados[j])
        /\ contenedores # Servicios => iniciados = <<>>)
  /\ [][/\ iniciados' # iniciados =>
             \E s \in Servicios : /\ iniciados' = Append(iniciados, s)
                                  /\ PuedeIniciar(s)
        /\ errores # <<>> => /\ iniciados' = iniciados
                             /\ orq_pc' \in {"final", "done"}]_vars

\* The last service has been started, after the first two succeeded and
\* passed their output checks.
C39_Witness ==
  /\ orq_pc = "wait"
  /\ iniciados = secuencia
  /\ verificados = {secuencia[1], secuencia[2]}
  /\ status[secuencia[3]] = "running"

====
